---- MODULE Spec2Model ----
(***************************************************************************)
(* Model of the video sorter of src/sorter/sorter.py: the analysis and     *)
(* preview pass, the five sort_by_* movers and reset_sorting, run against  *)
(* a directory tree of files and subdirectories.                           *)
(*                                                                         *)
(* A name is the pair (base, ext) that os.path.splitext returns, a path    *)
(* is the sequence of names below the sorted directory (<<>> is the        *)
(* directory itself), and the filesystem maps every existing path to its   *)
(* entry.  A file entry carries the identity of its content, so that an    *)
(* overwritten file is a lost identity.  Real numbers (durations, ratios,  *)
(* thresholds) are exact rationals <<numerator, denominator>>.             *)
(***************************************************************************)
EXTENDS Integers, Sequences, FiniteSets, TLC

VARIABLES
    fs,             \* the directory tree: path -> entry
    cfg,            \* the config dict in force
    pc,             \* position of the caller: "idle", "sort", "reset", "prune"
    call,           \* the running (or last) call: [op, dry_run]
    fs0,            \* the directory tree when the running call started
    files,          \* preview["files"]: the analyzed, categorized videos
    perrors,        \* preview["errors"]: names whose probe failed
    idx,            \* loop index of the sort loop (1-based position in files)
    files_to_move,  \* reset_sorting: entries of files_to_move not yet handled
    prune_dirs,     \* reset_sorting: directories the bottom-up walk has to visit
    found,          \* reset_sorting: len(files_to_move) as collected by the walk
    moved,          \* local counter moved
    errors,         \* local counter errors (reset_sorting)
    stats,          \* local dict stats
    result,         \* outcome of the last finished call
    failed,         \* number of moves the environment made fail in this call
    hist,           \* finished calls, oldest first
    sample,         \* the sample handed to the threshold functions
    computed,       \* the last threshold computation and its result
    categorized,    \* the last call of categorize_by_thresholds and its result
    plans,          \* the results of the preview_videos runs, oldest first
    on_progress     \* the progress sink the caller passes to its calls

\* the variables of the sorting session, and those of the planner
sorter_vars == <<fs, cfg, pc, call, fs0, files, perrors, idx, files_to_move,
                 prune_dirs, found, moved, errors, stats, result, failed, hist>>
planner_vars == <<sample, computed, categorized, plans>>

vars == <<sorter_vars, planner_vars, on_progress>>

-----------------------------------------------------------------------------
(* Bounds of the model.                                                    *)

MaxFailures == 1
MaxEntries == 3

-----------------------------------------------------------------------------
(* Exact rational arithmetic for the float computations.                   *)

RECURSIVE Gcd(_, _)
Gcd(a, b) == IF b = 0 THEN a ELSE Gcd(b, a % b)

Abs(x) == IF x < 0 THEN -x ELSE x

Norm(r) ==
    LET g == Gcd(Abs(r[1]), r[2])
    IN  IF r[1] = 0 THEN <<0, 1>> ELSE <<r[1] \div g, r[2] \div g>>

R(n) == <<n, 1>>
Frac(n, d) == Norm(<<n, d>>)
\* the operands are brought to their least common denominator, and the
\* factors of a product are cancelled crosswise, to keep the integers small
Lcm(a, b) == (a \div Gcd(a, b)) * b
OverLcm(a, b) == a[1] * (Lcm(a[2], b[2]) \div a[2])
RAdd(a, b) == Norm(<<OverLcm(a, b) + OverLcm(b, a), Lcm(a[2], b[2])>>)
RSub(a, b) == Norm(<<OverLcm(a, b) - OverLcm(b, a), Lcm(a[2], b[2])>>)
Cancel(n, d) == IF n = 0 THEN 1 ELSE Gcd(Abs(n), d)
RMul(a, b) ==
    Norm(<<(a[1] \div Cancel(a[1], b[2])) * (b[1] \div Cancel(b[1], a[2])),
           (a[2] \div Cancel(b[1], a[2])) * (b[2] \div Cancel(a[1], b[2]))>>)
RDiv(a, b) ==
    IF b[1] < 0 THEN RMul(a, <<-b[2], -b[1]>>) ELSE RMul(a, <<b[2], b[1]>>)
RLess(a, b) == OverLcm(a, b) < OverLcm(b, a)
RLeq(a, b) == OverLcm(a, b) <= OverLcm(b, a)
\* int(x) of Python: truncation toward zero
RInt(a) == IF a[1] >= 0 THEN a[1] \div a[2] ELSE -((-a[1]) \div a[2])

-----------------------------------------------------------------------------
(* Names and paths.                                                        *)

N(b, e) == [base |-> b, ext |-> e]

\* str.lower() on the extensions that occur
Lower(e) == IF e = ".MP4" THEN ".mp4" ELSE e

Root == <<>>
Parent(p) == SubSeq(p, 1, Len(p) - 1)
Basename(p) == p[Len(p)]
Join(d, n) == Append(d, n)

IsPrefix(d, p) == Len(d) <= Len(p) /\ SubSeq(p, 1, Len(d)) = d
IsStrictPrefix(d, p) == Len(d) < Len(p) /\ SubSeq(p, 1, Len(d)) = d

-----------------------------------------------------------------------------
(* The filesystem calls the sorter makes.                                  *)

FileEntry(id) == [kind |-> "file", id |-> id]
DirEntry == [kind |-> "dir", id |-> 0]

Exists(f, p) == p = Root \/ p \in DOMAIN f
IsFile(f, p) == p \in DOMAIN f /\ f[p].kind = "file"
IsDir(f, p) == p = Root \/ (p \in DOMAIN f /\ f[p].kind = "dir")
ListDir(f, d) == {p \in DOMAIN f : Len(p) = Len(d) + 1 /\ IsPrefix(d, p)}

\* the directories os.makedirs(d, exist_ok=True) has to create
Prefixes(d) == {SubSeq(d, 1, k) : k \in 1..Len(d)}

\* os.makedirs(d, exist_ok=True): ok is FALSE when a component is a file
MakeDirs(f, d) ==
    IF \E q \in Prefixes(d) : IsFile(f, q)
    THEN [ok |-> FALSE, fs |-> f]
    ELSE [ok |-> TRUE,
          fs |-> [p \in DOMAIN f \cup Prefixes(d) |->
                     IF p \in DOMAIN f THEN f[p] ELSE DirEntry]]

\* os.rename of a file onto real_dst: an existing file there is replaced
Rename(f, src, real_dst) ==
    [p \in (DOMAIN f \ {src}) \cup {real_dst} |->
        IF p = real_dst THEN f[src] ELSE f[p]]

\* shutil.move(src, dst) for a file src: into dst when dst is a directory
\* (refused when the name is taken there), onto dst otherwise
Move(f, src, dst) ==
    IF ~IsFile(f, src) \/ ~IsDir(f, Parent(dst))
    THEN [ok |-> FALSE, fs |-> f]
    ELSE IF IsDir(f, dst)
    THEN IF Exists(f, Join(dst, Basename(src)))
         THEN [ok |-> FALSE, fs |-> f]
         ELSE [ok |-> TRUE, fs |-> Rename(f, src, Join(dst, Basename(src)))]
    ELSE [ok |-> TRUE, fs |-> Rename(f, src, dst)]

\* the identities of the files stored anywhere in the tree
FileIds(f) == {f[p].id : p \in {q \in DOMAIN f : f[q].kind = "file"}}

-----------------------------------------------------------------------------
(* Configuration and probed metadata.                                      *)

VIDEO_EXTENSIONS == {".mp4", ".avi", ".mov", ".mkv", ".webm", ".flv", ".wmv"}

DEFAULT_CONFIG ==
    [video_extensions    |-> VIDEO_EXTENSIONS,
     duration_method     |-> "fixed",
     quality_method      |-> "fixed",
     duration_short_max  |-> R(60),
     duration_medium_max |-> R(300),
     quality_high_min    |-> R(1),
     quality_medium_min  |-> Frac(1, 2),
     bitrate_factor      |-> Frac(13, 100),
     num_categories      |-> 3,
     bitrate_threshold   |-> 300]

\* the configurations the runs are made under
Configs ==
    {DEFAULT_CONFIG,
     [DEFAULT_CONFIG EXCEPT !.duration_method = "percentile",
                            !.quality_method = "percentile"],
     [DEFAULT_CONFIG EXCEPT !.duration_method = "percentile",
                            !.quality_method = "percentile",
                            !.num_categories = 2]}

\* what ffprobe reports for the content of each file (ok = FALSE: probe fails)
Probe(ok, w, h, fps, dur, br) ==
    [ok |-> ok, width |-> w, height |-> h, fps |-> fps,
     duration |-> dur, bitrate |-> br]

Meta ==
    <<Probe(TRUE, 200, 100, 30, 10, 100000),
      Probe(TRUE, 100, 200, 30, 100, 400000),
      Probe(TRUE, 100, 100, 0, 0, 0),
      Probe(FALSE, 0, 0, 0, 0, 0),
      Probe(TRUE, 100, 200, 30, 400, 30000),
      Probe(TRUE, 200, 100, 30, 50, 300000),
      Probe(FALSE, 0, 0, 0, 0, 0),
      Probe(TRUE, 200, 100, 30, 200, 78000),
      Probe(TRUE, 200, 100, 30, 11, 101000)>>

\* get_video_info: the probe of the file at path p, with the orientation
GetVideoInfo(f, p) ==
    LET m == Meta[f[p].id]
    IN  [ok |-> m.ok, width |-> m.width, height |-> m.height, fps |-> m.fps,
         duration |-> R(m.duration), bitrate |-> m.bitrate,
         orientation |-> IF m.width >= m.height THEN "horizontal"
                                                ELSE "vertical"]

calculate_optimal_bitrate(width, height, fps, factor) ==
    RMul(R(width * height * (IF fps <= 0 THEN 30 ELSE fps)), factor)

-----------------------------------------------------------------------------
(* Sorting of names and numbers.                                           *)

\* the number of files of the large directory, and their names
LibrarySize == 20
LibraryName(k) ==
    [base |-> "v" \o (IF k < 10 THEN "0" ELSE "") \o ToString(k),
     ext |-> ".mp4"]

\* the video names that can stand in the sorted directory, in the order
\* Python's sorted() gives strings ('.' < '1' < '2' < '_' < 'a')
NameOrder ==
    <<N("a", ".mp4"), N("a_1", ".mp4"), N("a_1_1", ".mp4"), N("a_2", ".mp4"),
      N("b", ".mp4"), N("c", ".MP4"), N("d", ".mp4")>>
    \o [k \in 1..LibrarySize |-> LibraryName(k)]

Rank(n) == CHOOSE k \in 1..Len(NameOrder) : NameOrder[k] = n

\* sorted(names): the names of the set S in ascending order
RECURSIVE SortedNames(_)
SortedNames(S) ==
    IF S = {} THEN <<>>
    ELSE LET n == CHOOSE x \in S : \A y \in S : Rank(x) <= Rank(y)
         IN  <<n>> \o SortedNames(S \ {n})

\* insertion of v into the ascending sequence s
RECURSIVE Insert(_, _)
Insert(v, s) ==
    IF s = <<>> THEN <<v>>
    ELSE IF RLeq(v, Head(s)) THEN <<v>> \o s
    ELSE <<Head(s)>> \o Insert(v, Tail(s))

\* sorted(values) for a sequence of numbers
RECURSIVE Sorted(_)
Sorted(s) == IF s = <<>> THEN <<>> ELSE Insert(Head(s), Sorted(Tail(s)))

\* the elements of a list
Range(s) == {s[k] : k \in 1..Len(s)}

\* [x for x in s if x > 0]
RECURSIVE Positive(_)
Positive(s) ==
    IF s = <<>> THEN <<>>
    ELSE IF RLess(R(0), Head(s)) THEN <<Head(s)>> \o Positive(Tail(s))
    ELSE Positive(Tail(s))

-----------------------------------------------------------------------------
(* Threshold computation.                                                  *)

\* _percentile(values, p): linear interpolation at index (n-1)*p
Percentile(values, p) ==
    IF values = <<>> THEN R(0)
    ELSE LET sorted_values == Sorted(values)
             k == RMul(R(Len(sorted_values) - 1), p)
             f == RInt(k)
             c == RSub(k, R(f))
         IN  IF f + 1 < Len(sorted_values)
             THEN RAdd(RMul(sorted_values[f + 1], RSub(R(1), c)),
                       RMul(sorted_values[f + 2], c))
             ELSE sorted_values[f + 1]

calculate_thresholds_percentile(values, num_categories) ==
    IF values = <<>> THEN <<>>
    ELSE IF num_categories = 2 THEN <<Percentile(values, Frac(1, 2))>>
    ELSE <<Percentile(values, Frac(33, 100)), Percentile(values, Frac(66, 100))>>

\* sum(values); the sum is exact, so it is taken half by half, which keeps
\* the evaluation shallow
RECURSIVE Sum(_)
Sum(s) ==
    IF s = <<>> THEN R(0)
    ELSE IF Len(s) = 1 THEN s[1]
    ELSE RAdd(Sum(SubSeq(s, 1, Len(s) \div 2)),
              Sum(SubSeq(s, Len(s) \div 2 + 1, Len(s))))

\* _mean(values)
Mean(values) ==
    IF values = <<>> THEN R(0) ELSE RDiv(Sum(values), R(Len(values)))

\* the largest k in lo..(hi - 1) with k * k <= n
RECURSIVE ISqrtIn(_, _, _)
ISqrtIn(n, lo, hi) ==
    IF hi - lo <= 1 THEN lo
    ELSE IF ((lo + hi) \div 2) * ((lo + hi) \div 2) <= n
    THEN ISqrtIn(n, (lo + hi) \div 2, hi)
    ELSE ISqrtIn(n, lo, (lo + hi) \div 2)

\* math.sqrt(x) rounds to the nearest double; here the root is rounded down
\* to a multiple of 1 / SqrtScale
SqrtScale == 10
Sqrt(x) ==
    Frac(ISqrtIn((x[1] * SqrtScale * SqrtScale) \div x[2], 0, 46341), SqrtScale)

\* (x - mean) ** 2 for x in values
SquaredDeviations(values, mean) ==
    [k \in 1..Len(values) |->
        RMul(RSub(values[k], mean), RSub(values[k], mean))]

\* the standard deviation of a sample drawn from a population: n - 1
StdDevOfSample(values) ==
    IF Len(values) < 2 THEN R(0)
    ELSE Sqrt(RDiv(Sum(SquaredDeviations(values, Mean(values))),
                   R(Len(values) - 1)))

\* _stddev(values): the population standard deviation
StdDev(values) ==
    IF Len(values) < 2 THEN R(0)
    ELSE Sqrt(RDiv(Sum(SquaredDeviations(values, Mean(values))),
                   R(Len(values))))

\* max(0, x)
RMax0(x) == IF RLess(R(0), x) THEN x ELSE R(0)

calculate_thresholds_stddev(values, num_categories) ==
    IF values = <<>> THEN <<>>
    ELSE IF num_categories = 2 THEN <<RMax0(Mean(values))>>
    ELSE <<RMax0(RSub(Mean(values), RMul(Frac(1, 2), StdDev(values)))),
           RAdd(Mean(values), RMul(Frac(1, 2), StdDev(values)))>>

RAbs(x) == <<Abs(x[1]), x[2]>>

\* min_val + (max_val - min_val) * (i + 0.5) / num_categories, i = 0..K-1
InitialCentroids(min_val, max_val, num_categories) ==
    [i \in 1..num_categories |->
        RAdd(min_val, RDiv(RMul(RSub(max_val, min_val), Frac(2 * i - 1, 2)),
                           R(num_categories)))]

\* distances.index(min(distances)): the first centroid at the least distance
Nearest(v, centroids) ==
    CHOOSE i \in 1..Len(centroids) :
        /\ \A j \in 1..Len(centroids) :
               RLeq(RAbs(RSub(v, centroids[i])), RAbs(RSub(v, centroids[j])))
        /\ \A j \in 1..(i - 1) :
               RLess(RAbs(RSub(v, centroids[i])), RAbs(RSub(v, centroids[j])))

\* clusters[i]: the values assigned to centroid i, in the order of values
Cluster(values, centroids, i) ==
    SelectSeq(values, LAMBDA v : Nearest(v, centroids) = i)

\* an update that puts the centroid of an empty cluster at 0
NewCentroidsResettingEmpty(values, centroids) ==
    [i \in 1..Len(centroids) |->
        IF Cluster(values, centroids, i) = <<>> THEN R(0)
        ELSE Mean(Cluster(values, centroids, i))]

\* new_centroids: an empty cluster keeps its centroid
NewCentroids(values, centroids) ==
    [i \in 1..Len(centroids) |->
        IF Cluster(values, centroids, i) = <<>> THEN centroids[i]
        ELSE Mean(Cluster(values, centroids, i))]

\* for _ in range(max_iter): ... if new_centroids == centroids: break
max_iter == 100
RECURSIVE KMeansLoop(_, _, _)
KMeansStep(values, centroids, new_centroids, remaining) ==
    IF new_centroids = centroids THEN centroids
    ELSE KMeansLoop(values, new_centroids, remaining - 1)
KMeansLoop(values, centroids, remaining) ==
    IF remaining = 0 THEN centroids
    ELSE KMeansStep(values, centroids, NewCentroids(values, centroids),
                    remaining)

\* the lists the variable centroids holds, from its initialization to the end
\* of the loop
RECURSIVE KMeansTrail(_, _, _)
KMeansTrail(values, centroids, remaining) ==
    IF remaining = 0 \/ NewCentroids(values, centroids) = centroids
    THEN <<centroids>>
    ELSE <<centroids>> \o KMeansTrail(values, NewCentroids(values, centroids),
                                      remaining - 1)

\* the midpoints of neighbouring centroids, the centroids being sorted
Midpoints(centroids) ==
    [i \in 1..(Len(centroids) - 1) |->
        RDiv(RAdd(centroids[i], centroids[i + 1]), R(2))]

calculate_thresholds_kmeans(values, num_categories) ==
    IF values = <<>> \/ Len(values) < num_categories THEN <<>>
    ELSE IF Sorted(values)[1] = Sorted(values)[Len(values)] THEN <<>>
    ELSE Midpoints(Sorted(KMeansLoop(values,
             InitialCentroids(Sorted(values)[1], Sorted(values)[Len(values)],
                              num_categories),
             max_iter)))

\* the centroids of calculate_thresholds_kmeans as the loop went through
\* them; empty when the function returns before the loop
kmeans_centroids(values, num_categories) ==
    IF values = <<>> \/ Len(values) < num_categories THEN <<>>
    ELSE IF Sorted(values)[1] = Sorted(values)[Len(values)] THEN <<>>
    ELSE KMeansTrail(values,
             InitialCentroids(Sorted(values)[1], Sorted(values)[Len(values)],
                              num_categories),
             max_iter)

\* v = s2 - (s1 * s1) / m over sorted_values[i - 1 .. l - 1]: the sum of the
\* squared deviations of the class that holds the i-th to the l-th value
ClassVariance(sorted_values, i, l) ==
    RSub(Sum([k \in 1..(l - i + 1) |->
                 RMul(sorted_values[i + k - 1], sorted_values[i + k - 1])]),
         RDiv(RMul(Sum(SubSeq(sorted_values, i, l)),
                   Sum(SubSeq(sorted_values, i, l))),
              R(l - i + 1)))

\* the row l of variance_combinations and lower_class_limits once the loop
\* over l has run: row 1 is (0, 1) in every column, column 1 is the
\* variance of the one class 1..l; in column j > 1 every i from l down to 2
\* with variance_combinations[l][j] >= v + variance_combinations[i-1][j-1]
\* replaces the entry, so the least cost stays with the smallest such i
RECURSIVE JenksCost(_, _, _)
JenksCandidate(sorted_values, i, l, j) ==
    RAdd(ClassVariance(sorted_values, i, l),
         JenksCost(sorted_values, i - 1, j - 1))

\* the candidates of i = 2..l, as a sequence whose m-th element is that of
\* i = m + 1
JenksCandidates(sorted_values, l, j) ==
    SubSeq([m \in 1..(l - 1) |-> JenksCandidate(sorted_values, m + 1, l, j)],
           1, l - 1)

JenksLimitAmong(cost) ==
    CHOOSE m \in DOMAIN cost :
        /\ \A k \in DOMAIN cost : RLeq(cost[m], cost[k])
        /\ \A k \in DOMAIN cost : k < m => RLess(cost[m], cost[k])

JenksCostAmong(cost) == cost[JenksLimitAmong(cost)]

JenksCost(sorted_values, l, j) ==
    IF l = 1 THEN R(0)
    ELSE IF j = 1 THEN ClassVariance(sorted_values, 1, l)
    ELSE JenksCostAmong(JenksCandidates(sorted_values, l, j))

JenksLimit(sorted_values, l, j) ==
    IF l = 0 THEN 0
    ELSE IF l = 1 \/ j = 1 THEN 1
    ELSE JenksLimitAmong(JenksCandidates(sorted_values, l, j)) + 1

\* the backtrack from k = n: idx = lower_class_limits[k][j] - 1 for j from
\* num_categories down to 2, kept when 0 <= idx < n
RECURSIVE JenksBreaks(_, _, _)
JenksBreaksFrom(sorted_values, limit, j) ==
    (IF limit >= 1 THEN <<sorted_values[limit]>> ELSE <<>>)
        \o JenksBreaks(sorted_values, limit - 1, j - 1)

JenksBreaks(sorted_values, k, j) ==
    IF j < 2 THEN <<>>
    ELSE JenksBreaksFrom(sorted_values, JenksLimit(sorted_values, k, j), j)

\* the tail of calculate_thresholds_jenks: breaks, or the percentiles
JenksResult(values, breaks, num_categories) ==
    IF Len(breaks) = num_categories - 1 THEN Sorted(breaks)
    ELSE calculate_thresholds_percentile(values, num_categories)

\* jenks without the percentile fallback for samples under 20 values
calculate_thresholds_jenks_always(values, num_categories) ==
    IF values = <<>> \/ Len(values) < num_categories THEN <<>>
    ELSE IF Len(values) <= num_categories
    THEN SubSeq(Sorted(values), 1, Len(values) - 1)
    ELSE JenksResult(values,
             JenksBreaks(Sorted(values), Len(values), num_categories),
             num_categories)

calculate_thresholds_jenks(values, num_categories) ==
    IF values = <<>> \/ Len(values) < num_categories THEN <<>>
    ELSE IF Len(values) <= num_categories
    THEN SubSeq(Sorted(values), 1, Len(values) - 1)
    ELSE IF Len(values) < 20
    THEN calculate_thresholds_percentile(values, num_categories)
    ELSE JenksResult(values,
             JenksBreaks(Sorted(values), Len(values), num_categories),
             num_categories)

\* calculate_dynamic_thresholds: the threshold list it returns (the info
\* dict only describes the method)
calculate_dynamic_thresholds(values, method, num_categories) ==
    IF values = <<>> THEN <<>>
    ELSE IF method = "fixed" THEN <<>>
    ELSE IF method = "percentile"
    THEN calculate_thresholds_percentile(values, num_categories)
    ELSE IF method = "stddev"
    THEN calculate_thresholds_stddev(values, num_categories)
    ELSE IF method = "kmeans"
    THEN calculate_thresholds_kmeans(values, num_categories)
    ELSE IF method = "jenks"
    THEN calculate_thresholds_jenks(values, num_categories)
    ELSE calculate_thresholds_percentile(values, num_categories)

\* the info dict without the branch of the empty sample
calculate_dynamic_thresholds_info_unchecked(values, method, num_categories) ==
    IF method = "fixed"
    THEN [method |-> "fixed",
          message |-> "Using fixed thresholds from config"]
    ELSE IF method = "stddev"
    THEN [method |-> "stddev", mean |-> Mean(values),
          stddev |-> StdDev(values)]
    ELSE IF method = "kmeans"
    THEN [method |-> "kmeans", description |-> "K-means clustering"]
    ELSE IF method = "jenks"
    THEN [method |-> "jenks", description |-> "Jenks natural breaks"]
    ELSE [method |-> "percentile", description |-> "percentile"]

\* calculate_dynamic_thresholds: the info dict it returns beside the list
\* (the descriptions that format numbers are left to their numbers)
calculate_dynamic_thresholds_info(values, method, num_categories) ==
    IF values = <<>> THEN [method |-> method, error |-> "No values"]
    ELSE IF method = "fixed"
    THEN [method |-> "fixed",
          message |-> "Using fixed thresholds from config"]
    ELSE IF method = "stddev"
    THEN [method |-> "stddev", mean |-> Mean(values),
          stddev |-> StdDev(values)]
    ELSE IF method = "kmeans"
    THEN [method |-> "kmeans", description |-> "K-means clustering"]
    ELSE IF method = "jenks"
    THEN [method |-> "jenks", description |-> "Jenks natural breaks"]
    ELSE [method |-> "percentile", description |-> "percentile"]

\* the label of empty thresholds, taken as the first label
MiddleLabelBelow(labels) == labels[1]

\* labels[1] if len(labels) > 1 else labels[0]
MiddleLabel(labels) == IF Len(labels) > 1 THEN labels[2] ELSE labels[1]

\* a categorizer whose intervals are closed on the right
categorize_by_thresholds_inclusive(value, thresholds, labels) ==
    IF thresholds = <<>> THEN MiddleLabel(labels)
    ELSE IF \E i \in 1..Len(thresholds) : RLeq(value, thresholds[i])
    THEN labels[CHOOSE i \in 1..Len(thresholds) :
                    /\ RLeq(value, thresholds[i])
                    /\ \A j \in 1..(i - 1) : ~RLeq(value, thresholds[j])]
    ELSE labels[Len(labels)]

categorize_by_thresholds(value, thresholds, labels) ==
    IF thresholds = <<>> THEN MiddleLabel(labels)
    ELSE IF \E i \in 1..Len(thresholds) : RLess(value, thresholds[i])
    THEN labels[CHOOSE i \in 1..Len(thresholds) :
                    /\ RLess(value, thresholds[i])
                    /\ \A j \in 1..(i - 1) : ~RLess(value, thresholds[j])]
    ELSE labels[Len(labels)]

-----------------------------------------------------------------------------
(* Analysis and preview.                                                   *)

\* sorted([f for f in os.listdir(directory) if isfile and ext.lower() in
\* extensions]): the candidate video names of the directory
CandidateNames(f, c) ==
    SortedNames({Basename(p) : p \in {q \in ListDir(f, Root) :
        IsFile(f, q) /\ Lower(Basename(q).ext) \in c.video_extensions}})

\* an analysis that takes the files in the order of the listing
CandidatesInUnsorted(listing, f, c) ==
    SelectSeq(listing, LAMBDA n :
        IsFile(f, <<n>>) /\ Lower(n.ext) \in c.video_extensions)

\* the same candidates, from the list os.listdir(directory) returned
CandidatesIn(listing, f, c) ==
    SortedNames(Range(SelectSeq(listing, LAMBDA n :
        IsFile(f, <<n>>) /\ Lower(n.ext) \in c.video_extensions)))

\* quality_ratio = bitrate / optimal if optimal > 0 and bitrate > 0 else 0
QualityRatio(bitrate, optimal) ==
    IF RLess(R(0), optimal) /\ bitrate > 0
    THEN RDiv(R(bitrate), optimal) ELSE R(0)

\* the record analyze_videos appends for a file probed as info
Analyzed(filename, info, optimal) ==
    [filename |-> filename,
     filepath |-> <<filename>>,
     width |-> info.width, height |-> info.height, fps |-> info.fps,
     duration |-> info.duration, bitrate |-> info.bitrate,
     orientation |-> info.orientation,
     optimal_bitrate |-> optimal,
     quality_ratio |-> QualityRatio(info.bitrate, optimal)]

\* an analysis that keeps a file whose probe returned nothing
ProbedNamesUnchecked(f, names) == names

\* the names whose probe returns a dict, and those it fails on
ProbedNames(f, names) ==
    SelectSeq(names, LAMBDA n : GetVideoInfo(f, <<n>>).ok)
FailedNames(f, names) ==
    SelectSeq(names, LAMBDA n : ~GetVideoInfo(f, <<n>>).ok)

OptimalFor(info, c) ==
    calculate_optimal_bitrate(info.width, info.height, info.fps,
                              c.bitrate_factor)

AnalyzedFile(f, c, filename) ==
    Analyzed(filename, GetVideoInfo(f, <<filename>>),
             OptimalFor(GetVideoInfo(f, <<filename>>), c))

\* the loop of analyze_videos over the sorted candidate names
AnalyzeAll(f, c, names) ==
    [files |-> [k \in 1..Len(ProbedNames(f, names)) |->
                   AnalyzedFile(f, c, ProbedNames(f, names)[k])],
     errors |-> FailedNames(f, names),
     total |-> Len(names)]

analyze_videos(f, c) == AnalyzeAll(f, c, CandidateNames(f, c))

\* a categorize_video whose high class starts above quality_high_min
categorize_video_above(info, config) ==
    [orientation |-> info.orientation,
     duration_cat |->
         IF RLess(info.duration, config.duration_short_max) THEN "short"
         ELSE IF RLess(info.duration, config.duration_medium_max)
         THEN "medium" ELSE "long",
     quality_cat |->
         IF RLess(R(0), OptimalFor(info, config)) /\ info.bitrate > 0
         THEN IF RLess(config.quality_high_min,
                       RDiv(R(info.bitrate), OptimalFor(info, config)))
              THEN "high"
              ELSE IF RLeq(config.quality_medium_min,
                           RDiv(R(info.bitrate), OptimalFor(info, config)))
              THEN "medium" ELSE "low"
         ELSE "unknown",
     duration |-> info.duration,
     bitrate |-> info.bitrate,
     optimal_bitrate |-> OptimalFor(info, config)]

\* categorize_video: the classes of one probed file against the configured
\* cutoffs
categorize_video(info, config) ==
    [orientation |-> info.orientation,
     duration_cat |->
         IF RLess(info.duration, config.duration_short_max) THEN "short"
         ELSE IF RLess(info.duration, config.duration_medium_max)
         THEN "medium" ELSE "long",
     quality_cat |->
         IF RLess(R(0), OptimalFor(info, config)) /\ info.bitrate > 0
         THEN IF RLeq(config.quality_high_min,
                      RDiv(R(info.bitrate), OptimalFor(info, config)))
              THEN "high"
              ELSE IF RLeq(config.quality_medium_min,
                           RDiv(R(info.bitrate), OptimalFor(info, config)))
              THEN "medium" ELSE "low"
         ELSE "unknown",
     duration |-> info.duration,
     bitrate |-> info.bitrate,
     optimal_bitrate |-> OptimalFor(info, config)]

IntStr(t) == ToString(RInt(t))
PctStr(t) == ToString(RInt(RMul(t, R(100))))

\* a sample that takes the duration of every record
DurationSampleOfAll(vids) == [k \in 1..Len(vids) |-> vids[k].duration]

\* durations = [f["duration"] for f in files if f["duration"] > 0]
DurationSample(vids) ==
    Positive([k \in 1..Len(vids) |-> vids[k].duration])

\* quality_ratios = [f["quality_ratio"] for f in files if f["quality_ratio"] > 0]
QualitySample(vids) ==
    Positive([k \in 1..Len(vids) |-> vids[k].quality_ratio])

DurationThresholds(c, vids) ==
    IF c.duration_method # "fixed"
    THEN calculate_dynamic_thresholds(DurationSample(vids),
                                      c.duration_method, c.num_categories)
    ELSE <<c.duration_short_max, c.duration_medium_max>>

QualityThresholds(c, vids) ==
    IF c.quality_method # "fixed"
    THEN calculate_dynamic_thresholds(QualitySample(vids),
                                      c.quality_method, c.num_categories)
    ELSE <<c.quality_medium_min, c.quality_high_min>>

\* duration_info and quality_info of preview_videos
DurationInfo(c, vids) ==
    IF c.duration_method # "fixed"
    THEN calculate_dynamic_thresholds_info(DurationSample(vids),
                                           c.duration_method, c.num_categories)
    ELSE [method |-> "fixed",
          thresholds |-> <<c.duration_short_max, c.duration_medium_max>>]

QualityInfo(c, vids) ==
    IF c.quality_method # "fixed"
    THEN calculate_dynamic_thresholds_info(QualitySample(vids),
                                           c.quality_method, c.num_categories)
    ELSE [method |-> "fixed",
          thresholds |-> <<c.quality_medium_min, c.quality_high_min>>]

DurationLabels(c, t) ==
    IF c.num_categories = 2
    THEN IF t # <<>>
         THEN <<"short_under_" \o IntStr(t[1]) \o "s",
                "long_over_" \o IntStr(t[1]) \o "s">>
         ELSE <<"short", "long">>
    ELSE IF Len(t) >= 2
         THEN <<"short_under_" \o IntStr(t[1]) \o "s",
                "medium_" \o IntStr(t[1]) \o "s-" \o IntStr(t[2]) \o "s",
                "long_over_" \o IntStr(t[2]) \o "s">>
         ELSE <<"short", "medium", "long">>

QualityLabels(c, t) ==
    IF c.num_categories = 2
    THEN IF t # <<>>
         THEN <<"low_under_" \o PctStr(t[1]) \o "pct",
                "high_over_" \o PctStr(t[1]) \o "pct">>
         ELSE <<"low", "high">>
    ELSE IF Len(t) >= 2
         THEN <<"low_under_" \o PctStr(t[1]) \o "pct",
                "medium_" \o PctStr(t[1]) \o "-" \o PctStr(t[2]) \o "pct",
                "high_over_" \o PctStr(t[2]) \o "pct">>
         ELSE <<"low", "medium", "high">>

\* the two category fields preview_videos sets on a record
Categorized(vid, dt, dl, qt, ql) ==
    [filename |-> vid.filename, filepath |-> vid.filepath,
     width |-> vid.width, height |-> vid.height, fps |-> vid.fps,
     duration |-> vid.duration, bitrate |-> vid.bitrate,
     optimal_bitrate |-> vid.optimal_bitrate,
     quality_ratio |-> vid.quality_ratio,
     orientation |-> IF vid.width >= vid.height THEN "horizontal"
                                                ELSE "vertical",
     duration_cat |-> categorize_by_thresholds(vid.duration, dt, dl),
     quality_cat |-> IF RLess(R(0), vid.quality_ratio)
                     THEN categorize_by_thresholds(vid.quality_ratio, qt, ql)
                     ELSE "unknown"]

\* the dict preview_videos returns for the analysis, given the duration
\* thresholds dt and the quality thresholds qt: labels, categories, result
PreviewWith(c, analysis, dt, qt) ==
    LET vids == analysis.files
        dl == DurationLabels(c, dt)
        ql == QualityLabels(c, qt)
    IN  IF vids = <<>>
        THEN [files |-> <<>>, errors |-> analysis.errors, total |-> 0,
              duration_thresholds |-> <<>>, quality_thresholds |-> <<>>,
              duration_info |-> <<>>, quality_info |-> <<>>,
              duration_labels |-> <<>>, quality_labels |-> <<>>]
        ELSE [files |-> [k \in 1..Len(vids) |->
                            Categorized(vids[k], dt, dl, qt, ql)],
              errors |-> analysis.errors, total |-> analysis.total,
              duration_thresholds |-> dt, quality_thresholds |-> qt,
              duration_info |-> DurationInfo(c, vids),
              quality_info |-> QualityInfo(c, vids),
              duration_labels |-> dl, quality_labels |-> ql]

\* preview_videos from the analysis on: the thresholds are computed once,
\* from the files of the analysis
PreviewOf(c, analysis) ==
    PreviewWith(c, analysis, DurationThresholds(c, analysis.files),
                QualityThresholds(c, analysis.files))

preview_videos(f, c) == PreviewOf(c, analyze_videos(f, c))

-----------------------------------------------------------------------------
(* The progress sink.                                                      *)

\* on_progress=None, and a callable that raises on the calls whose first
\* argument (i + 1) is in S
NoSink == [given |-> FALSE, raises |-> {}]
SinkRaisingOn(S) == [given |-> TRUE, raises |-> S]

\* if on_progress: on_progress(i + 1, ...) raises
SinkRaises(i) == on_progress.given /\ i \in on_progress.raises

-----------------------------------------------------------------------------
(* The sort_by_* movers.                                                   *)

SortOps == {"orientation", "duration", "quality", "bitrate", "pipeline"}

\* the dict stats each mover starts from
InitialStats(op) ==
    CASE op = "orientation" -> [k \in {"horizontal", "vertical"} |-> 0]
      [] op = "duration"    -> [k \in {"short", "medium", "long"} |-> 0]
      [] op = "quality"     -> [k \in {"high", "medium", "low", "unknown"} |-> 0]
      [] op = "bitrate"     -> [k \in {"low", "normal"} |-> 0]
      [] op = "pipeline"    -> [k \in {} |-> 0]

IsLowBitrate(c, vid) ==
    vid.bitrate > 0 /\ vid.bitrate < c.bitrate_threshold * 1000

BitrateCat(c, vid) ==
    IF IsLowBitrate(c, vid)
    THEN "low_under_" \o ToString(c.bitrate_threshold) \o "kbps"
    ELSE "normal_over_" \o ToString(c.bitrate_threshold) \o "kbps"

\* the folder names below the directory that the mover sends vid to
PathParts(op, c, vid) ==
    CASE op = "orientation" -> <<vid.orientation>>
      [] op = "duration"    -> <<vid.duration_cat>>
      [] op = "quality"     -> <<vid.quality_cat>>
      [] op = "bitrate"     -> <<BitrateCat(c, vid)>>
      [] op = "pipeline"    -> <<vid.orientation, vid.duration_cat,
                                 BitrateCat(c, vid)>>

DestDir(op, c, vid) ==
    LET parts == PathParts(op, c, vid)
    IN  [k \in 1..Len(parts) |-> N(parts[k], "")]

\* the key of stats the mover counts vid under
StatsKey(op, c, vid) ==
    CASE op = "orientation" -> vid.orientation
      [] op = "duration"    -> vid.duration_cat
      [] op = "quality"     -> vid.quality_cat
      [] op = "bitrate"     -> IF IsLowBitrate(c, vid) THEN "low" ELSE "normal"
      [] op = "pipeline"    -> vid.orientation \o "/" \o vid.duration_cat
                                 \o "/" \o BitrateCat(c, vid)

\* stats[key] += 1 raises KeyError on a missing key; the pipeline mover
\* uses stats.get(key, 0) + 1 instead
KeyPresent(op, st, key) == op = "pipeline" \/ key \in DOMAIN st

Count(st, key) ==
    [k \in DOMAIN st \cup {key} |->
        IF k = key THEN (IF key \in DOMAIN st THEN st[key] ELSE 0) + 1
        ELSE st[k]]

\* os.makedirs(dest_dir, exist_ok=True); shutil.move(filepath, dest_path)
MakeAndMove(f, src, dest_dir, dest_path) ==
    LET mk == MakeDirs(f, dest_dir)
    IN  IF mk.ok THEN Move(mk.fs, src, dest_path) ELSE mk

\* the dict a mover returns (sort_by_bitrate adds the key "threshold", which
\* nothing below reads)
Returned(m, e, st) ==
    [status |-> "returned", moved |-> m, errors |-> e, stats |-> st]
Raised(exc) == [status |-> "raised", exc |-> exc]

Finished(c, before, after, res, nfail) ==
    [op |-> c.op, dry_run |-> c.dry_run, before |-> before, after |-> after,
     result |-> res, failures |-> nfail]

\* the sessions a caller makes: one call; a dry run and then the same
\* operation live; a live call and then a live reset
Follows(prev, c) ==
    /\ ~c.dry_run
    /\ \/ prev.dry_run /\ c.op = prev.op
       \/ ~prev.dry_run /\ c.op = "reset"

CanCall(c) ==
    /\ pc = "idle"
    /\ \/ hist = <<>>
       \/ Len(hist) = 1 /\ Follows(hist[1], c)

\* preview finds no analyzable file: the mover returns at once
SortNoFiles(op, dry) ==
    LET c == [op |-> op, dry_run |-> dry]
        preview == preview_videos(fs, cfg)
    IN  /\ CanCall(c)
        /\ preview.files = <<>>
        /\ call' = c
        /\ fs0' = fs
        /\ result' = Returned(0, 0, <<>>)
        /\ hist' = Append(hist, Finished(c, fs, fs, result', 0))
        /\ UNCHANGED <<planner_vars, on_progress>>
        /\ UNCHANGED <<fs, cfg, pc, files, perrors, idx, files_to_move,
                       prune_dirs, found, moved, errors, stats, failed>>

\* the mover up to the head of its loop
SortBegin(op, dry) ==
    LET c == [op |-> op, dry_run |-> dry]
        preview == preview_videos(fs, cfg)
    IN  /\ CanCall(c)
        /\ preview.files # <<>>
        /\ call' = c
        /\ fs0' = fs
        /\ pc' = "sort"
        /\ files' = preview.files
        /\ perrors' = preview.errors
        /\ idx' = 1
        /\ moved' = 0
        /\ stats' = InitialStats(op)
        /\ failed' = 0
        /\ UNCHANGED <<planner_vars, on_progress>>
        /\ UNCHANGED <<fs, cfg, files_to_move, prune_dirs, found, errors,
                       result, hist>>

\* a mover that makes the move in a dry run too
AfterMoveIgnoringDryRun(f, c, op, dry, vid) ==
    MakeAndMove(f, vid.filepath, DestDir(op, c, vid),
                Join(DestDir(op, c, vid), vid.filename))

\* a mover that categorizes each file again, against the files still at the
\* root when its turn comes
AfterMoveRecomputing(f, c, op, dry, vid) ==
    LET now == preview_videos(f, c).files
        cur == now[CHOOSE k \in 1..Len(now) : now[k].filepath = vid.filepath]
    IN  IF dry THEN [ok |-> TRUE, fs |-> f]
        ELSE MakeAndMove(f, vid.filepath, DestDir(op, c, cur),
                         Join(DestDir(op, c, cur), vid.filename))

\* the tree after the move of one loop iteration (unchanged in a dry run)
AfterMove(f, c, op, dry, vid) ==
    IF dry THEN [ok |-> TRUE, fs |-> f]
    ELSE MakeAndMove(f, vid.filepath, DestDir(op, c, vid),
                     Join(DestDir(op, c, vid), vid.filename))

\* a mover that counts a file only when it really moved it
SortIterationCountsLiveOnly ==
    /\ pc = "sort"
    /\ idx <= Len(files)
    /\ ~SinkRaises(idx)
    /\ LET vid == files[idx]
           mv == IF call.dry_run THEN [ok |-> TRUE, fs |-> fs]
                 ELSE MakeAndMove(fs, vid.filepath, DestDir(call.op, cfg, vid),
                                  Join(DestDir(call.op, cfg, vid), vid.filename))
           key == StatsKey(call.op, cfg, vid)
       IN  /\ mv.ok
           /\ KeyPresent(call.op, stats, key)
           /\ fs' = mv.fs
           /\ stats' = IF call.dry_run THEN stats ELSE Count(stats, key)
           /\ moved' = IF call.dry_run THEN moved ELSE moved + 1
           /\ idx' = idx + 1
    /\ UNCHANGED <<planner_vars, on_progress>>
    /\ UNCHANGED <<cfg, pc, call, fs0, files, perrors, files_to_move,
                   prune_dirs, found, errors, result, failed, hist>>

\* one iteration of the loop that runs to its end
SortIteration ==
    /\ pc = "sort"
    /\ idx <= Len(files)
    /\ ~SinkRaises(idx)
    /\ LET vid == files[idx]
           mv == AfterMove(fs, cfg, call.op, call.dry_run, vid)
           key == StatsKey(call.op, cfg, vid)
       IN  /\ mv.ok
           /\ KeyPresent(call.op, stats, key)
           /\ fs' = mv.fs
           /\ stats' = Count(stats, key)
           /\ moved' = moved + 1
           /\ idx' = idx + 1
    /\ UNCHANGED <<planner_vars, on_progress>>
    /\ UNCHANGED <<cfg, pc, call, fs0, files, perrors, files_to_move,
                   prune_dirs, found, errors, result, failed, hist>>

\* one iteration whose stats[key] += 1 raises KeyError, after the move
SortKeyError ==
    /\ pc = "sort"
    /\ idx <= Len(files)
    /\ ~SinkRaises(idx)
    /\ LET vid == files[idx]
           mv == AfterMove(fs, cfg, call.op, call.dry_run, vid)
           key == StatsKey(call.op, cfg, vid)
       IN  /\ mv.ok
           /\ ~KeyPresent(call.op, stats, key)
           /\ fs' = mv.fs
           /\ result' = Raised("KeyError")
           /\ hist' = Append(hist, Finished(call, fs0, mv.fs, result', failed))
    /\ pc' = "idle"
    /\ UNCHANGED <<planner_vars, on_progress>>
    /\ UNCHANGED <<cfg, call, fs0, files, perrors, idx, files_to_move,
                   prune_dirs, found, moved, errors, stats, failed>>

\* one iteration whose makedirs or move raises: nothing catches it.  The
\* environment may fail either call (permission denied, disk full); the
\* directories are then created or not
SortMoveFails ==
    /\ pc = "sort"
    /\ idx <= Len(files)
    /\ ~SinkRaises(idx)
    /\ ~call.dry_run
    /\ LET vid == files[idx]
           mk == MakeDirs(fs, DestDir(call.op, cfg, vid))
           mv == AfterMove(fs, cfg, call.op, call.dry_run, vid)
       IN  /\ ~mv.ok \/ failed < MaxFailures
           /\ fs' \in {fs, mk.fs}
           /\ result' = Raised("OSError")
           /\ hist' = Append(hist, Finished(call, fs0, fs', result', failed + 1))
    /\ failed' = failed + 1
    /\ pc' = "idle"
    /\ UNCHANGED <<planner_vars, on_progress>>
    /\ UNCHANGED <<cfg, call, fs0, files, perrors, idx, files_to_move,
                   prune_dirs, found, moved, errors, stats>>

\* one iteration whose on_progress call raises: nothing catches it, and the
\* mover ends before the move of this file
SortSinkRaises ==
    /\ pc = "sort"
    /\ idx <= Len(files)
    /\ SinkRaises(idx)
    /\ result' = Raised("on_progress")
    /\ hist' = Append(hist, Finished(call, fs0, fs, result', failed))
    /\ pc' = "idle"
    /\ UNCHANGED <<planner_vars, on_progress>>
    /\ UNCHANGED <<fs, cfg, call, fs0, files, perrors, idx, files_to_move,
                   prune_dirs, found, moved, errors, stats, failed>>

\* the loop is over: the mover returns its result
SortReturn ==
    /\ pc = "sort"
    /\ idx > Len(files)
    /\ result' = Returned(moved, Len(perrors), stats)
    /\ hist' = Append(hist, Finished(call, fs0, fs, result', failed))
    /\ pc' = "idle"
    /\ UNCHANGED <<planner_vars, on_progress>>
    /\ UNCHANGED <<fs, cfg, call, fs0, files, perrors, idx, files_to_move,
                   prune_dirs, found, moved, errors, stats, failed>>

-----------------------------------------------------------------------------
(* reset_sorting.                                                          *)

ResetCall(dry) == [op |-> "reset", dry_run |-> dry]

ResetReturned(m, e) == [status |-> "returned", moved |-> m, errors |-> e]

\* reset that compares the extension as written, without lower()
WalkFilesCaseSensitive(f, c) ==
    {[filename |-> Basename(p), source |-> p, relative |-> Parent(p)] :
        p \in {q \in DOMAIN f : /\ Len(q) >= 2
                                /\ f[q].kind = "file"
                                /\ Basename(q).ext \in c.video_extensions}}

\* reset that lists only the immediate subdirectories of the root
WalkFilesOneLevel(f, c) ==
    {[filename |-> Basename(p), source |-> p, relative |-> Parent(p)] :
        p \in {q \in DOMAIN f : /\ Len(q) = 2
                                /\ f[q].kind = "file"
                                /\ Lower(Basename(q).ext) \in c.video_extensions}}

\* reset that does not skip the root in its walk
WalkFilesWithRoot(f, c) ==
    {[filename |-> Basename(p), source |-> p, relative |-> Parent(p)] :
        p \in {q \in DOMAIN f : /\ f[q].kind = "file"
                                /\ Lower(Basename(q).ext) \in c.video_extensions}}

\* the first loop: os.walk over every directory but the root, keeping the
\* files whose lower-cased extension is a video extension
WalkFiles(f, c) ==
    {[filename |-> Basename(p), source |-> p, relative |-> Parent(p)] :
        p \in {q \in DOMAIN f : /\ Len(q) >= 2
                                /\ f[q].kind = "file"
                                /\ Lower(Basename(q).ext) \in c.video_extensions}}

\* while os.path.exists(dest): dest = base_counter.ext; counter += 1
RECURSIVE NextFree(_, _, _, _)
NextFree(f, base, ext, counter) ==
    LET dest == <<N(base \o "_" \o ToString(counter), ext)>>
    IN  IF Exists(f, dest) THEN NextFree(f, base, ext, counter + 1) ELSE dest

\* the number of paths base_counter.ext, base_(counter + 1).ext, ... that
\* the while loop tests until one is free
RECURSIVE SuffixProbes(_, _, _, _)
SuffixProbes(f, base, ext, counter) ==
    IF Exists(f, <<N(base \o "_" \o ToString(counter), ext)>>)
    THEN 1 + SuffixProbes(f, base, ext, counter + 1)
    ELSE 1

\* a search that tests every path twice
ResetProbesTestingTwice(f, filename) ==
    IF Exists(f, <<filename>>)
    THEN 2 + 2 * SuffixProbes(f, filename.base, filename.ext, 1)
    ELSE 2

\* the number of destination paths the reset loop tests for filename: the
\* name itself, then the suffixed names
ResetProbes(f, filename) ==
    IF Exists(f, <<filename>>)
    THEN 1 + SuffixProbes(f, filename.base, filename.ext, 1)
    ELSE 1

\* reset that moves onto the name without looking whether it is taken
ResetDestUnchecked(f, filename) == <<filename>>

\* the destination in the root the reset loop settles on for filename
ResetDest(f, filename) ==
    IF Exists(f, <<filename>>)
    THEN NextFree(f, filename.base, filename.ext, 1)
    ELSE <<filename>>

\* i + 1 of the running iteration of the move loop
ResetCallNumber == found - Cardinality(files_to_move) + 1

\* the walk finds no video file below the root: return at once
ResetNoFiles(dry) ==
    /\ CanCall(ResetCall(dry))
    /\ WalkFiles(fs, cfg) = {}
    /\ call' = ResetCall(dry)
    /\ fs0' = fs
    /\ result' = ResetReturned(0, 0)
    /\ hist' = Append(hist, Finished(call', fs, fs, result', 0))
    /\ UNCHANGED <<planner_vars, on_progress>>
    /\ UNCHANGED <<fs, cfg, pc, files, perrors, idx, files_to_move,
                   prune_dirs, found, moved, errors, stats, failed>>

\* reset_sorting up to the head of its move loop
ResetBegin(dry) ==
    /\ CanCall(ResetCall(dry))
    /\ WalkFiles(fs, cfg) # {}
    /\ call' = ResetCall(dry)
    /\ fs0' = fs
    /\ pc' = "reset"
    /\ files_to_move' = WalkFiles(fs, cfg)
    /\ found' = Cardinality(WalkFiles(fs, cfg))
    /\ moved' = 0
    /\ errors' = 0
    /\ failed' = 0
    /\ UNCHANGED <<planner_vars, on_progress>>
    /\ UNCHANGED <<fs, cfg, files, perrors, idx, prune_dirs, stats, result,
                   hist>>

\* one iteration of the move loop that counts the file as moved; os.walk
\* lists in the order of the directory, so any pending entry may be next
ResetMove ==
    /\ pc = "reset"
    /\ ~SinkRaises(ResetCallNumber)
    /\ \E file_info \in files_to_move :
         LET dest == ResetDest(fs, file_info.filename)
             mv == IF call.dry_run THEN [ok |-> TRUE, fs |-> fs]
                   ELSE Move(fs, file_info.source, dest)
         IN  /\ mv.ok
             /\ fs' = mv.fs
             /\ files_to_move' = files_to_move \ {file_info}
    /\ moved' = moved + 1
    /\ UNCHANGED <<planner_vars, on_progress>>
    /\ UNCHANGED <<cfg, pc, call, fs0, files, perrors, idx, prune_dirs, found,
                   errors, stats, result, failed, hist>>

\* reset whose handler swallows the exception without counting it
ResetMoveFailsUncounted ==
    /\ pc = "reset"
    /\ ~SinkRaises(ResetCallNumber)
    /\ ~call.dry_run
    /\ \E file_info \in files_to_move :
         /\ failed < MaxFailures
         /\ files_to_move' = files_to_move \ {file_info}
    /\ failed' = failed + 1
    /\ UNCHANGED <<planner_vars, on_progress>>
    /\ UNCHANGED <<fs, cfg, pc, call, fs0, files, perrors, idx, prune_dirs,
                   found, moved, errors, stats, result, hist>>

\* one iteration whose shutil.move raises: except Exception counts an error
ResetMoveFails ==
    /\ pc = "reset"
    /\ ~SinkRaises(ResetCallNumber)
    /\ ~call.dry_run
    /\ \E file_info \in files_to_move :
         LET dest == ResetDest(fs, file_info.filename)
             mv == Move(fs, file_info.source, dest)
         IN  /\ ~mv.ok \/ failed < MaxFailures
             /\ files_to_move' = files_to_move \ {file_info}
    /\ errors' = errors + 1
    /\ failed' = failed + 1
    /\ UNCHANGED <<planner_vars, on_progress>>
    /\ UNCHANGED <<fs, cfg, pc, call, fs0, files, perrors, idx, prune_dirs,
                   found, moved, stats, result, hist>>

\* one iteration whose on_progress call raises: the call stands outside the
\* try of the move, and reset_sorting ends without pruning
ResetSinkRaises ==
    /\ pc = "reset"
    /\ files_to_move # {}
    /\ SinkRaises(ResetCallNumber)
    /\ result' = Raised("on_progress")
    /\ hist' = Append(hist, Finished(call, fs0, fs, result', failed))
    /\ pc' = "idle"
    /\ UNCHANGED <<planner_vars, on_progress>>
    /\ UNCHANGED <<fs, cfg, call, fs0, files, perrors, idx, files_to_move,
                   prune_dirs, found, moved, errors, stats, failed>>

\* the move loop of a dry run is over: no pruning, return
ResetReturnDry ==
    /\ pc = "reset"
    /\ files_to_move = {}
    /\ call.dry_run
    /\ result' = ResetReturned(moved, errors)
    /\ hist' = Append(hist, Finished(call, fs0, fs, result', failed))
    /\ pc' = "idle"
    /\ UNCHANGED <<planner_vars, on_progress>>
    /\ UNCHANGED <<fs, cfg, call, fs0, files, perrors, idx, files_to_move,
                   prune_dirs, found, moved, errors, stats, failed>>

\* the move loop of a live run is over: os.walk(directory, topdown=False)
\* will yield every directory below the root
PruneBegin ==
    /\ pc = "reset"
    /\ files_to_move = {}
    /\ ~call.dry_run
    /\ pc' = "prune"
    /\ prune_dirs' = {p \in DOMAIN fs : fs[p].kind = "dir"}
    /\ UNCHANGED <<planner_vars, on_progress>>
    /\ UNCHANGED <<fs, cfg, call, fs0, files, perrors, idx, files_to_move,
                   found, moved, errors, stats, result, failed, hist>>

\* the bottom-up walk yields root only after every directory below it
Ready(root) == \A d \in prune_dirs : ~IsStrictPrefix(root, d)

\* pruning that removes a visited directory with all it holds
PruneRemoveTree ==
    /\ pc = "prune"
    /\ \E root \in prune_dirs :
         /\ Ready(root)
         /\ fs' = [p \in {q \in DOMAIN fs : ~IsPrefix(root, q)} |-> fs[p]]
         /\ prune_dirs' = prune_dirs \ {root}
    /\ UNCHANGED <<planner_vars, on_progress>>
    /\ UNCHANGED <<cfg, pc, call, fs0, files, perrors, idx, files_to_move,
                   found, moved, errors, stats, result, failed, hist>>

\* if not os.listdir(root): os.rmdir(root)
PruneRemove ==
    /\ pc = "prune"
    /\ \E root \in prune_dirs :
         /\ Ready(root)
         /\ ListDir(fs, root) = {}
         /\ fs' = [p \in DOMAIN fs \ {root} |-> fs[p]]
         /\ prune_dirs' = prune_dirs \ {root}
    /\ UNCHANGED <<planner_vars, on_progress>>
    /\ UNCHANGED <<cfg, pc, call, fs0, files, perrors, idx, files_to_move,
                   found, moved, errors, stats, result, failed, hist>>

\* a directory that still lists an entry is left alone
PruneKeep ==
    /\ pc = "prune"
    /\ \E root \in prune_dirs :
         /\ Ready(root)
         /\ ListDir(fs, root) # {}
         /\ prune_dirs' = prune_dirs \ {root}
    /\ UNCHANGED <<planner_vars, on_progress>>
    /\ UNCHANGED <<fs, cfg, pc, call, fs0, files, perrors, idx, files_to_move,
                   found, moved, errors, stats, result, failed, hist>>

\* the walk is over: reset_sorting returns
ResetReturn ==
    /\ pc = "prune"
    /\ prune_dirs = {}
    /\ result' = ResetReturned(moved, errors)
    /\ hist' = Append(hist, Finished(call, fs0, fs, result', failed))
    /\ pc' = "idle"
    /\ UNCHANGED <<planner_vars, on_progress>>
    /\ UNCHANGED <<fs, cfg, call, fs0, files, perrors, idx, files_to_move,
                   prune_dirs, found, moved, errors, stats, failed>>

-----------------------------------------------------------------------------
(* The directory trees a session starts from.                              *)

\* entries a tree may hold: a path and the identity of the file there
\* (0: an empty directory); the directories above a path come with it
Slots ==
    <<[path |-> <<N("a", ".mp4")>>, id |-> 1],
      [path |-> <<N("b", ".mp4")>>, id |-> 2],
      [path |-> <<N("c", ".MP4")>>, id |-> 3],
      [path |-> <<N("d", ".mp4")>>, id |-> 4],
      [path |-> <<N("horizontal", ""), N("a", ".mp4")>>, id |-> 5],
      [path |-> <<N("x", ""), N("y", ""), N("a", ".mp4")>>, id |-> 6],
      [path |-> <<N("x", ""), N("notes", ".txt")>>, id |-> 7],
      [path |-> <<N("a_1", ".mp4")>>, id |-> 8],
      [path |-> <<N("e", "")>>, id |-> 0]>>

Tree(S) ==
    LET paths == UNION {Prefixes(Slots[k].path) : k \in S}
        leaf(p) == {k \in S : Slots[k].path = p}
    IN  [p \in paths |->
            IF leaf(p) # {} /\ Slots[CHOOSE k \in leaf(p) : TRUE].id # 0
            THEN FileEntry(Slots[CHOOSE k \in leaf(p) : TRUE].id)
            ELSE DirEntry]

InitialTrees ==
    {Tree(S) : S \in {T \in SUBSET (1..Len(Slots)) : Cardinality(T) <= MaxEntries}}

\* a session starts with a tree and a config, before any call
SessionStart ==
    /\ fs \in InitialTrees
    /\ cfg \in Configs
    /\ pc = "idle"
    /\ call = [op |-> "none", dry_run |-> TRUE]
    /\ fs0 = fs
    /\ files = <<>>
    /\ perrors = <<>>
    /\ idx = 1
    /\ files_to_move = {}
    /\ prune_dirs = {}
    /\ found = 0
    /\ moved = 0
    /\ errors = 0
    /\ stats = <<>>
    /\ result = [status |-> "none"]
    /\ failed = 0
    /\ hist = <<>>
    /\ sample = <<>>
    /\ computed = [method |-> "none"]
    /\ categorized = [label |-> "none"]
    /\ plans = <<>>

Init ==
    /\ SessionStart
    /\ on_progress = NoSink

Next ==
    \/ \E op \in SortOps, dry \in BOOLEAN : SortNoFiles(op, dry)
    \/ \E op \in SortOps, dry \in BOOLEAN : SortBegin(op, dry)
    \/ SortIteration
    \/ SortKeyError
    \/ SortMoveFails
    \/ SortReturn
    \/ \E dry \in BOOLEAN : ResetNoFiles(dry)
    \/ \E dry \in BOOLEAN : ResetBegin(dry)
    \/ ResetMove
    \/ ResetMoveFails
    \/ ResetReturnDry
    \/ PruneBegin
    \/ PruneRemove
    \/ PruneKeep
    \/ ResetReturn

Spec == Init /\ [][Next]_vars

TypeOK ==
    /\ pc \in {"idle", "sort", "reset", "prune"}
    /\ Len(hist) <= 2
    /\ \A p \in DOMAIN fs : Len(p) >= 1 /\ IsDir(fs, Parent(p))

-----------------------------------------------------------------------------
(* Sessions whose calls are given a progress sink.                         *)

MaxSinkCall == 2

\* the sinks: one that never raises, and those that raise on one call
SinkInit ==
    /\ SessionStart
    /\ on_progress \in {SinkRaisingOn({})}
                          \cup {SinkRaisingOn({k}) : k \in 1..MaxSinkCall}

PreviewCallOf == [op |-> "preview", dry_run |-> TRUE]

\* preview_videos(directory, config, on_progress): analyze_videos calls the
\* sink once per candidate file, before the probe; no call raises
PreviewCall ==
    /\ CanCall(PreviewCallOf)
    /\ \A i \in 1..Len(CandidateNames(fs, cfg)) : ~SinkRaises(i)
    /\ call' = PreviewCallOf
    /\ fs0' = fs
    /\ \E analysis \in {analyze_videos(fs, cfg)} :
           /\ result' = [status |-> "returned",
                       preview |-> PreviewOf(cfg, analysis)]
           /\ hist' = Append(hist, Finished(call', fs, fs, result', 0))
    /\ UNCHANGED <<planner_vars, on_progress>>
    /\ UNCHANGED <<fs, cfg, pc, files, perrors, idx, files_to_move,
                   prune_dirs, found, moved, errors, stats, failed>>

\* the sink raises on one of the calls of the analysis loop: nothing
\* catches it in analyze_videos or in preview_videos
PreviewSinkRaises ==
    /\ CanCall(PreviewCallOf)
    /\ \E i \in 1..Len(CandidateNames(fs, cfg)) : SinkRaises(i)
    /\ call' = PreviewCallOf
    /\ fs0' = fs
    /\ result' = Raised("on_progress")
    /\ hist' = Append(hist, Finished(call', fs, fs, result', 0))
    /\ UNCHANGED <<planner_vars, on_progress>>
    /\ UNCHANGED <<fs, cfg, pc, files, perrors, idx, files_to_move,
                   prune_dirs, found, moved, errors, stats, failed>>

SinkNext ==
    \/ Next
    \/ SortSinkRaises
    \/ ResetSinkRaises
    \/ PreviewCall
    \/ PreviewSinkRaises

SinkSpec == SinkInit /\ [][SinkNext]_vars

-----------------------------------------------------------------------------
(* The threshold functions and the categorizer, run on samples.            *)

MaxSample == 4

\* some longer samples, among them samples long enough for the matrices of
\* calculate_thresholds_jenks (20 values or more)
LongSamples ==
    {<<R(3), R(1), R(4), R(1), R(5)>>,
     [k \in 1..19 |-> R((7 * k) % 20)],
     [k \in 1..20 |-> R(k)],
     [k \in 1..20 |-> IF k = 1 THEN R(1) ELSE R(5)],
     [k \in 1..20 |-> R(2)],
     [k \in 1..20 |-> IF k = 20 THEN R(100) ELSE R(1)],
     [k \in 1..21 |-> R((k % 3) * 10 + (k \div 3))],
     [k \in 1..22 |-> IF k % 2 = 0 THEN R(3) ELSE R(k)]}

\* the short samples are drawn from the values 1, 2 and 5 (preview_videos
\* hands over positive values only)
Samples ==
    {[k \in 1..Len(s) |-> R(s[k])] :
        s \in UNION {[1..n -> {1, 2, 5}] : n \in 0..MaxSample}}
        \cup LongSamples

\* CATEGORIZATION_METHODS, with num_categories 2 or 3
CATEGORIZATION_METHODS == {"fixed", "percentile", "stddev", "kmeans", "jenks"}

PlannerConfigs ==
    {[DEFAULT_CONFIG EXCEPT !.duration_method = m, !.quality_method = m,
                            !.num_categories = n] :
        m \in CATEGORIZATION_METHODS, n \in {2, 3}}

\* the sorter stands still while the planner functions are run
SorterAtRest ==
    /\ pc = "idle"
    /\ on_progress = NoSink
    /\ call = [op |-> "none", dry_run |-> TRUE]
    /\ fs0 = fs
    /\ files = <<>>
    /\ perrors = <<>>
    /\ idx = 1
    /\ files_to_move = {}
    /\ prune_dirs = {}
    /\ found = 0
    /\ moved = 0
    /\ errors = 0
    /\ stats = <<>>
    /\ result = [status |-> "none"]
    /\ failed = 0
    /\ hist = <<>>

ThresholdInit ==
    /\ sample \in Samples
    /\ cfg \in PlannerConfigs
    /\ fs = <<>>
    /\ SorterAtRest
    /\ computed = [method |-> "none"]
    /\ categorized = [label |-> "none"]
    /\ plans = <<>>

\* calculate_dynamic_thresholds(values, method, num_categories) on the sample
ComputeThresholds ==
    /\ computed.method = "none"
    /\ computed' =
           [method |-> cfg.duration_method,
            num_categories |-> cfg.num_categories,
            thresholds |-> calculate_dynamic_thresholds(
                               sample, cfg.duration_method, cfg.num_categories),
            info |-> calculate_dynamic_thresholds_info(
                         sample, cfg.duration_method, cfg.num_categories),
            centroids |-> IF cfg.duration_method = "kmeans"
                          THEN kmeans_centroids(sample, cfg.num_categories)
                          ELSE <<>>]
    /\ UNCHANGED <<sample, categorized, plans>>
    /\ UNCHANGED <<sorter_vars, on_progress>>

\* the values handed to the categorizer: those of the sample, every
\* threshold, and the values half a unit to either side of it
CategorizeInputs ==
    Range(sample) \cup
    UNION {{t, RSub(t, Frac(1, 2)), RAdd(t, Frac(1, 2))} :
              t \in Range(computed.thresholds)}

\* categorize_by_thresholds(value, thresholds, labels), with the labels
\* preview_videos makes for the thresholds
Categorize ==
    /\ computed.method # "none"
    /\ \E value \in CategorizeInputs :
           categorized' =
               [value |-> value,
                thresholds |-> computed.thresholds,
                labels |-> DurationLabels(cfg, computed.thresholds),
                label |-> categorize_by_thresholds(
                              value, computed.thresholds,
                              DurationLabels(cfg, computed.thresholds))]
    /\ UNCHANGED <<sample, computed, plans>>
    /\ UNCHANGED <<sorter_vars, on_progress>>

ThresholdNext ==
    \/ ComputeThresholds
    \/ Categorize

ThresholdSpec == ThresholdInit /\ [][ThresholdNext]_vars

-----------------------------------------------------------------------------
(* preview_videos, run on directories.                                     *)

MaxRotation == 1
MaxRuns == 2

\* a directory of LibrarySize videos, enough for every branch of the
\* threshold functions; the contents repeat those of five probed files
LibraryContents == <<1, 2, 5, 6, 8>>

Library ==
    [p \in {<<LibraryName(k)>> : k \in 1..LibrarySize} |->
        FileEntry(LibraryContents[
            ((CHOOSE k \in 1..LibrarySize : p = <<LibraryName(k)>>)
                % Len(LibraryContents)) + 1])]

\* a directory of two takes of nearly the same length and bitrate
Retakes ==
    [p \in {<<LibraryName(1)>>, <<LibraryName(2)>>} |->
        FileEntry(IF p = <<LibraryName(1)>> THEN 1 ELSE 9)]

\* flat directories of video files
PlanTrees ==
    {Tree(S) : S \in {T \in SUBSET {k \in 1..Len(Slots) :
                                       /\ Len(Slots[k].path) = 1
                                       /\ Slots[k].id # 0} :
                         Cardinality(T) <= MaxEntries}}
        \cup {Library, Retakes}

\* os.listdir(directory) returns the entries in arbitrary order: the orders
\* taken are the first rotations of the sorted listing
Rotation(s, k) == [i \in 1..Len(s) |-> s[((i + k - 1) % Len(s)) + 1]]

Listings(f) ==
    LET names == SortedNames({Basename(p) : p \in ListDir(f, Root)})
    IN  IF names = <<>> THEN {<<>>}
        ELSE {Rotation(names, k) : k \in 0..MaxRotation}

PlanInit ==
    /\ fs \in PlanTrees
    /\ cfg \in PlannerConfigs
    /\ SorterAtRest
    /\ sample = <<>>
    /\ computed = [method |-> "none"]
    /\ categorized = [label |-> "none"]
    /\ plans = <<>>

\* one run of preview_videos(directory, config) on the unchanged directory;
\* sample is its list durations
Preview ==
    /\ Len(plans) < MaxRuns
    /\ \E listing \in Listings(fs) :
           \E analysis \in {AnalyzeAll(fs, cfg, CandidatesIn(listing, fs, cfg))} :
               /\ plans' = Append(plans, [listing |-> listing,
                                          result |-> PreviewOf(cfg, analysis)])
               /\ sample' = DurationSample(analysis.files)
    /\ UNCHANGED <<computed, categorized>>
    /\ UNCHANGED <<sorter_vars, on_progress>>

PlanNext ==
    \/ Preview
    \/ ComputeThresholds

PlanSpec == PlanInit /\ [][PlanNext]_vars

-----------------------------------------------------------------------------
(* categorize_video and preview_videos, run on one file under fixed        *)
(* cutoffs.                                                                *)

CutoffValues == {Frac(1, 2), R(1), Frac(3, 2), R(4)}

\* the fixed method with 3 categories and every pair of quality cutoffs
CutoffConfigs ==
    {[DEFAULT_CONFIG EXCEPT !.quality_medium_min = m, !.quality_high_min = h] :
        m \in CutoffValues, h \in CutoffValues}

\* a directory of one file, of every content
OneFileTrees ==
    {[p \in {<<LibraryName(1)>>} |-> FileEntry(id)] : id \in 1..Len(Meta)}

VideoInit ==
    /\ fs \in OneFileTrees
    /\ cfg \in CutoffConfigs
    /\ SorterAtRest
    /\ sample = <<>>
    /\ computed = [method |-> "none"]
    /\ categorized = [label |-> "none"]
    /\ plans = <<>>

\* info = get_video_info(filepath) of the file, then categorize_video(info,
\* config) beside preview_videos(directory, config)
CategorizeVideo ==
    /\ categorized.label = "none"
    /\ \E p \in DOMAIN fs :
           /\ GetVideoInfo(fs, p).ok
           /\ categorized' =
                  [label |-> "video",
                   direct |-> categorize_video(GetVideoInfo(fs, p), cfg),
                   preview |-> preview_videos(fs, cfg)]
    /\ UNCHANGED <<sample, computed, plans>>
    /\ UNCHANGED <<sorter_vars, on_progress>>

VideoNext == CategorizeVideo

VideoSpec == VideoInit /\ [][VideoNext]_vars

-----------------------------------------------------------------------------
(* Properties of the sort movers.                                          *)

RECURSIVE SumOver(_, _)
SumOver(st, keys) ==
    IF keys = {} THEN 0
    ELSE LET k == CHOOSE x \in keys : TRUE
         IN  st[k] + SumOver(st, keys \ {k})

\* C1: for a directory with at least one analyzable video, every sort call
\* whose moves all succeed returns {moved, errors, stats} where stats counts
\* each file under the category it was assigned, the counts sum to moved,
\* and moved is the number of analyzable files.
C1_SortResultCountsEveryFile ==
    \A k \in 1..Len(hist) :
        LET h == hist[k]
            vids == preview_videos(h.before, cfg).files
        IN  (h.op \in SortOps /\ h.failures = 0 /\ vids # <<>>) =>
                /\ h.result.status = "returned"
                /\ h.result.moved = Len(vids)
                /\ SumOver(h.result.stats, DOMAIN h.result.stats) = h.result.moved
                /\ \A key \in DOMAIN h.result.stats :
                       h.result.stats[key] =
                           Cardinality({j \in 1..Len(vids) :
                                           StatsKey(h.op, cfg, vids[j]) = key})

\* C2: a live sort never overwrites a file that already stands at the
\* destination path: every file of the tree is still there after the move
\* (the moved one under a suffixed name).
C2_SortKeepsExistingFile ==
    call.op \in SortOps => FileIds(fs) = FileIds(fs0)

\* C3: a move that fails in a live sort is caught for that file alone: the
\* call still returns its result.
C3_SortSurvivesMoveFailure ==
    \A k \in 1..Len(hist) :
        (hist[k].op \in SortOps /\ hist[k].failures > 0) =>
            hist[k].result.status = "returned"

C5_DryRunLeavesTree ==
    call.dry_run => fs = fs0

C5_Witness ==
    /\ pc = "idle"
    /\ hist # <<>>
    /\ call.dry_run
    /\ call.op = "orientation"
    /\ result.status = "returned"
    /\ result.moved >= 2

\* C6: a live sort of a flat directory of video files by one dimension,
\* followed by a live reset, no move failing in either, leaves the tree as
\* it was: the same files under their original names at the root, and no
\* subdirectory.
C6_SortThenResetRoundTrip ==
    (/\ Len(hist) = 2
     /\ hist[1].op \in SortOps \ {"pipeline"} /\ ~hist[1].dry_run
     /\ hist[2].op = "reset" /\ ~hist[2].dry_run
     /\ hist[1].failures = 0 /\ hist[2].failures = 0
     /\ \A p \in DOMAIN hist[1].before :
            /\ Len(p) = 1
            /\ hist[1].before[p].kind = "file"
            /\ Lower(Basename(p).ext) \in cfg.video_extensions) =>
        hist[2].after = hist[1].before

C6_Witness ==
    /\ Len(hist) = 2
    /\ hist[1].op = "orientation" /\ ~hist[1].dry_run
    /\ hist[1].result.status = "returned"
    /\ hist[1].result.moved = 3
    /\ \A p \in DOMAIN hist[1].before : Len(p) = 1
    /\ hist[2].op = "reset" /\ ~hist[2].dry_run
    /\ hist[2].result.moved = 3
    /\ hist[2].after = hist[1].before

-----------------------------------------------------------------------------
(* Properties of reset_sorting.                                            *)

\* the paths of the video files that stand below a subdirectory of the tree
VideosBelow(f) ==
    {p \in DOMAIN f : /\ Len(p) >= 2
                      /\ f[p].kind = "file"
                      /\ Lower(Basename(p).ext) \in VIDEO_EXTENSIONS}

\* C7: after a live reset in which no move fails, every video file that was
\* in a subdirectory, at any depth, is in the root, none is left in a
\* subdirectory, and moved is the number of such files.
C7_ResetBringsEveryVideoToRoot ==
    \A k \in 1..Len(hist) :
        LET h == hist[k]
            below == VideosBelow(h.before)
        IN  (h.op = "reset" /\ ~h.dry_run /\ h.failures = 0) =>
                /\ \A w \in below :
                       \E p \in DOMAIN h.after :
                           Len(p) = 1 /\ h.after[p] = h.before[w]
                /\ VideosBelow(h.after) = {}
                /\ h.result.moved = Cardinality(below)

C7_Witness ==
    /\ pc = "idle"
    /\ hist # <<>>
    /\ call.op = "reset" /\ ~call.dry_run
    /\ <<N("x", ""), N("y", ""), N("a", ".mp4")>> \in DOMAIN fs0
    /\ <<N("horizontal", ""), N("a", ".mp4")>> \in DOMAIN fs0
    /\ result.moved = 2
    /\ failed = 0

\* C8: the move loop of reset_sorting never overwrites an entry of the
\* root: a file whose name is taken there goes to base_k.ext for the
\* smallest k >= 1 that is free, every file of the tree still exists, and
\* the number of video files under the root is unchanged.
C8_ResetNeverOverwrites ==
    /\ [](call.op = "reset" =>
            /\ FileIds(fs) = FileIds(fs0)
            /\ Cardinality({p \in DOMAIN fs :
                   fs[p].kind = "file"
                   /\ Lower(Basename(p).ext) \in cfg.video_extensions})
               = Cardinality({p \in DOMAIN fs0 :
                   fs0[p].kind = "file"
                   /\ Lower(Basename(p).ext) \in cfg.video_extensions}))
    /\ [][pc = "reset" =>
            /\ \A p \in DOMAIN fs :
                   Len(p) = 1 => p \in DOMAIN fs' /\ fs'[p] = fs[p]
            /\ \A d \in DOMAIN fs' \ DOMAIN fs :
                   \E s \in DOMAIN fs \ DOMAIN fs' :
                       LET n == Basename(s)
                       IN  /\ fs'[d] = fs[s]
                           /\ IF <<n>> \notin DOMAIN fs THEN d = <<n>>
                              ELSE \E j \in 1..(Cardinality(DOMAIN fs) + 1) :
                                  /\ d = <<N(n.base \o "_" \o ToString(j), n.ext)>>
                                  /\ \A i \in 1..(j - 1) :
                                         <<N(n.base \o "_" \o ToString(i), n.ext)>>
                                             \in DOMAIN fs
        ]_vars

C8_Witness ==
    /\ pc = "idle"
    /\ call.op = "reset" /\ ~call.dry_run
    /\ <<N("a", ".mp4")>> \in DOMAIN fs0
    /\ fs[<<N("a", ".mp4")>>] = fs0[<<N("a", ".mp4")>>]
    /\ <<N("a_1", ".mp4")>> \in DOMAIN fs /\ <<N("a_1", ".mp4")>> \notin DOMAIN fs0
    /\ <<N("a_2", ".mp4")>> \in DOMAIN fs
    /\ Cardinality(FileIds(fs)) = 3

\* C9: in a live reset a move that fails is counted in errors and not in
\* moved, the loop goes on, and on return moved + errors is the number of
\* video files found in subdirectories.
C9_ResetCountsFailedMoves ==
    \A k \in 1..Len(hist) :
        LET h == hist[k]
            below == VideosBelow(h.before)
        IN  (h.op = "reset" /\ ~h.dry_run) =>
                /\ h.result.status = "returned"
                /\ h.result.errors = h.failures
                /\ h.result.moved + h.result.errors = Cardinality(below)
                /\ h.result.moved =
                       Cardinality({w \in below : w \notin DOMAIN h.after})

C9_Witness ==
    /\ pc = "idle"
    /\ call.op = "reset" /\ ~call.dry_run
    /\ result.status = "returned"
    /\ result.errors = 1
    /\ result.moved = 2

\* C10: reset_sorting removes a directory only when it lists no entry at
\* that moment; files without a video extension, entries of the root that
\* are files, and directories that hold a file without a video extension
\* somewhere below them stay in place, unchanged.
C10_ResetRemovesOnlyEmptyDirs ==
    [][(pc = "reset" \/ pc = "prune") =>
        /\ \A p \in DOMAIN fs :
               (fs[p].kind = "dir" /\ p \notin DOMAIN fs') => ListDir(fs, p) = {}
        /\ \A p \in DOMAIN fs :
               (\/ fs[p].kind = "file"
                   /\ Lower(Basename(p).ext) \notin cfg.video_extensions
                \/ fs[p].kind = "file" /\ Len(p) = 1
                \/ fs[p].kind = "dir"
                   /\ \E q \in DOMAIN fs :
                          /\ IsStrictPrefix(p, q)
                          /\ fs[q].kind = "file"
                          /\ Lower(Basename(q).ext) \notin cfg.video_extensions)
               => p \in DOMAIN fs' /\ fs'[p] = fs[p]
      ]_vars

C10_Witness ==
    /\ pc = "idle"
    /\ call.op = "reset" /\ ~call.dry_run
    /\ result.status = "returned"
    /\ <<N("x", ""), N("y", "")>> \in DOMAIN fs0
    /\ <<N("x", ""), N("y", "")>> \notin DOMAIN fs
    /\ <<N("x", ""), N("notes", ".txt")>> \in DOMAIN fs
    /\ <<N("x", "")>> \in DOMAIN fs

\* C11: when a live reset_sorting returns, no subdirectory without entries
\* is left under the directory.
C11_ResetLeavesNoEmptyDir ==
    \A k \in 1..Len(hist) :
        (hist[k].op = "reset" /\ ~hist[k].dry_run
            /\ hist[k].result.status = "returned") =>
            \A p \in DOMAIN hist[k].after :
                hist[k].after[p].kind = "dir" => ListDir(hist[k].after, p) # {}

-----------------------------------------------------------------------------
(* Properties of the analysis and of the plan.                             *)

\* the names of the video files that stand in the root of the tree, and
\* those among them that the probe fails on
RootVideos(f, c) ==
    {Basename(p) : p \in {q \in DOMAIN f :
        /\ Len(q) = 1
        /\ f[q].kind = "file"
        /\ Lower(Basename(q).ext) \in c.video_extensions}}

ProbeFails(f, n) == ~Meta[f[<<n>>].id].ok

Occurrences(s, x) == Cardinality({k \in 1..Len(s) : s[k] = x})

\* C12: in the result of analyze_videos and of preview_videos every
\* candidate video file of the directory appears exactly once, in files
\* (with one orientation, one duration_cat and one quality_cat) or in
\* errors; a file whose probe failed is in errors, never in files, and no
\* value of a threshold sample comes from it.
C12_EveryCandidateOnce ==
    LET an == analyze_videos(fs, cfg)
        pv == preview_videos(fs, cfg)
        names(vids) == [k \in 1..Len(vids) |-> vids[k].filename]
        good == {n \in RootVideos(fs, cfg) : ~ProbeFails(fs, n)}
    IN  /\ \A n \in RootVideos(fs, cfg) :
            /\ Occurrences(names(an.files), n) + Occurrences(an.errors, n) = 1
            /\ Occurrences(names(pv.files), n) + Occurrences(pv.errors, n) = 1
            /\ ProbeFails(fs, n) => Occurrences(pv.errors, n) = 1
        /\ Range(names(an.files)) \cup Range(an.errors) = RootVideos(fs, cfg)
        /\ \A k \in 1..Len(pv.files) :
            /\ pv.files[k].orientation \in {"horizontal", "vertical"}
            /\ pv.files[k].duration_cat \in Range(pv.duration_labels)
            /\ pv.files[k].quality_cat \in
                   Range(pv.quality_labels) \cup {"unknown"}
        /\ Len(DurationSample(an.files)) <= Cardinality(good)
        /\ Len(QualitySample(an.files)) <= Cardinality(good)
        /\ Range(DurationSample(an.files)) \subseteq
               {R(Meta[fs[<<n>>].id].duration) : n \in good}
        /\ pc = "sort" =>
            /\ Range(names(files)) \cup Range(perrors) = RootVideos(fs0, cfg)
            /\ \A n \in Range(perrors) : ProbeFails(fs0, n)
            /\ \A n \in Range(names(files)) : ~ProbeFails(fs0, n)

C12_Witness ==
    /\ pc = "sort"
    /\ Len(files) = 2
    /\ perrors = <<N("d", ".mp4")>>
    /\ fs = fs0

\* C13: every sort_by_* call that returns reports, as errors, the number of
\* candidate files whose probe failed, also when no file of the batch is
\* analyzable.
C13_SortErrorsCountFailedProbes ==
    \A k \in 1..Len(hist) :
        (hist[k].op \in SortOps /\ hist[k].result.status = "returned") =>
            hist[k].result.errors =
                Cardinality({n \in RootVideos(hist[k].before, cfg) :
                                ProbeFails(hist[k].before, n)})

-----------------------------------------------------------------------------
(* Properties of the threshold functions and of the categorizer.           *)

NonDecreasing(t) == \A i \in 1..(Len(t) - 1) : RLeq(t[i], t[i + 1])

AllEqual(s) == \A i, j \in 1..Len(s) : s[i] = s[j]

\* C15: categorize_by_thresholds applies half-open intervals: with
\* non-decreasing thresholds t[1..m] and m + 1 labels, a value below t[1]
\* gets the first label, a value with t[i-1] <= value < t[i] the i-th, and a
\* value at or above t[m] the last; so with one threshold t a value just
\* below t gets the first label and t itself the second.
C15_HalfOpenIntervals ==
    (/\ categorized.label # "none"
     /\ categorized.thresholds # <<>>
     /\ NonDecreasing(categorized.thresholds)
     /\ Len(categorized.labels) = Len(categorized.thresholds) + 1) =>
        LET v == categorized.value
            t == categorized.thresholds
            l == categorized.labels
            m == Len(categorized.thresholds)
        IN  /\ RLess(v, t[1]) => categorized.label = l[1]
            /\ \A i \in 2..m :
                   (RLeq(t[i - 1], v) /\ RLess(v, t[i])) =>
                       categorized.label = l[i]
            /\ RLeq(t[m], v) => categorized.label = l[m + 1]

C15_Witness ==
    /\ categorized.label # "none"
    /\ Len(categorized.thresholds) = 2
    /\ RLess(categorized.thresholds[1], categorized.thresholds[2])
    /\ categorized.value = categorized.thresholds[1]
    /\ categorized.label = categorized.labels[2]
    /\ categorized.labels[2] # categorized.labels[1]

C18_EveryBucketNonEmpty ==
    (\/ /\ computed.method = "kmeans"
        /\ Len(sample) >= computed.num_categories
        /\ ~AllEqual(sample)
     \/ /\ computed.method = "jenks"
        /\ Len(sample) >= 20
        /\ Len(computed.thresholds) = computed.num_categories - 1) =>
        \A bucket \in 1..computed.num_categories :
            \E k \in 1..Len(sample) :
                categorize_by_thresholds(
                    sample[k], computed.thresholds,
                    [j \in 1..computed.num_categories |-> j]) = bucket

\* the value at index (n - 1) * p of the sorted sample, interpolated
\* linearly between its two neighbours
InterpolatedAt(s, p) ==
    LET pos == RMul(R(Len(s) - 1), p)
        lo == pos[1] \div pos[2]
    IN  IF lo + 2 <= Len(s)
        THEN RAdd(Sorted(s)[lo + 1],
                  RMul(RSub(pos, R(lo)),
                       RSub(Sorted(s)[lo + 2], Sorted(s)[lo + 1])))
        ELSE Sorted(s)[lo + 1]

\* the mean of the squares less the square of the mean
PopulationVariance(s) ==
    RSub(RDiv(Sum([k \in 1..Len(s) |-> RMul(s[k], s[k])]), R(Len(s))),
         RMul(RDiv(Sum(s), R(Len(s))), RDiv(Sum(s), R(Len(s)))))

\* C19: for a sample of at least 3 non-negative values, not all equal, the
\* percentile method and the stddev method with 3 categories return exactly
\* 2 thresholds t1 <= t2: the 33rd and 66th percentiles by linear
\* interpolation at index (n - 1) * p, and max(0, mean - sigma / 2) and
\* mean + sigma / 2 with the population sigma (to the precision of the
\* square root).
C19_TwoOrderedThresholds ==
    (/\ computed.method \in {"percentile", "stddev"}
     /\ computed.num_categories = 3
     /\ Len(sample) >= 3
     /\ ~AllEqual(sample)) =>
        LET t == computed.thresholds
            mu == RDiv(Sum(sample), R(Len(sample)))
        IN  /\ Len(t) = 2
            /\ RLeq(t[1], t[2])
            /\ computed.method = "percentile" =>
                   t = <<InterpolatedAt(sample, Frac(33, 100)),
                         InterpolatedAt(sample, Frac(66, 100))>>
            /\ computed.method = "stddev" =>
                   LET sigma == RMul(R(2), RSub(t[2], mu))
                       above == RAdd(sigma, Frac(1, SqrtScale))
                   IN  /\ RLess(R(0), sigma)
                       /\ RLeq(RMul(sigma, sigma), PopulationVariance(sample))
                       /\ RLess(PopulationVariance(sample),
                                RMul(above, above))
                       /\ t[1] = RMax0(RSub(mu, RSub(t[2], mu)))

C19_Witness ==
    /\ computed.method = "stddev"
    /\ computed.num_categories = 3
    /\ Len(sample) = 4
    /\ ~AllEqual(sample)
    /\ Len(computed.thresholds) = 2
    /\ RLess(R(0), computed.thresholds[1])
    /\ RLess(computed.thresholds[1], computed.thresholds[2])

\* the dimensions of a plan whose thresholds came from a dynamic method and
\* are empty
DurationDegenerate(plan) ==
    /\ cfg.duration_method # "fixed"
    /\ plan.result.files # <<>>
    /\ plan.result.duration_thresholds = <<>>

QualityDegenerate(plan) ==
    /\ cfg.quality_method # "fixed"
    /\ plan.result.files # <<>>
    /\ plan.result.quality_thresholds = <<>>

\* the labels with as many labels before them as after them
MiddleLabels(labels) ==
    {labels[k] : k \in {m \in 1..Len(labels) : m - 1 = Len(labels) - m}}

\* C14: for every method and for 2 and 3 categories, the duration and the
\* quality thresholds of a plan of preview_videos are empty, or they are
\* non-decreasing and num_categories - 1 in number
C14_ThresholdsMatchCategories ==
    \A i \in 1..Len(plans) :
        \A t \in {plans[i].result.duration_thresholds,
                  plans[i].result.quality_thresholds} :
            t = <<>> \/ (Len(t) = cfg.num_categories - 1 /\ NonDecreasing(t))

\* C16 as stated: when a dynamic method gives no thresholds, every value
\* that is categorized gets the single middle label of the label set, for 3
\* categories and for 2
C16_EmptyThresholdsGiveMiddleLabel ==
    \A i \in 1..Len(plans) :
        \A k \in 1..Len(plans[i].result.files) :
            /\ DurationDegenerate(plans[i]) =>
                   plans[i].result.files[k].duration_cat
                       \in MiddleLabels(plans[i].result.duration_labels)
            /\ (/\ QualityDegenerate(plans[i])
                /\ RLess(R(0), plans[i].result.files[k].quality_ratio)) =>
                   plans[i].result.files[k].quality_cat
                       \in MiddleLabels(plans[i].result.quality_labels)

\* C16: when a dynamic method gives no thresholds, every value that is
\* categorized gets one and the same label: the middle label for 3
\* categories (medium), the upper of the two labels for 2 (long, high)
C16_EmptyThresholdsGiveOneLabel ==
    \A i \in 1..Len(plans) :
        \A k \in 1..Len(plans[i].result.files) :
            /\ DurationDegenerate(plans[i]) =>
                   plans[i].result.files[k].duration_cat
                       = (IF cfg.num_categories = 3 THEN "medium" ELSE "long")
            /\ (/\ QualityDegenerate(plans[i])
                /\ RLess(R(0), plans[i].result.files[k].quality_ratio)) =>
                   plans[i].result.files[k].quality_cat
                       = (IF cfg.num_categories = 3 THEN "medium" ELSE "high")

C16_Witness ==
    /\ cfg.num_categories = 2
    /\ \E i \in 1..Len(plans) :
           /\ DurationDegenerate(plans[i])
           /\ QualityDegenerate(plans[i])
           /\ \E k \in 1..Len(plans[i].result.files) :
                  /\ plans[i].result.files[k].duration_cat = "long"
                  /\ plans[i].result.files[k].quality_cat = "high"

\* C20: the runs of preview_videos on one directory with one configuration
\* give the same plan (thresholds, labels, and the categories of every
\* file), whatever the order in which the directory is listed, and for
\* every method
C20_PlanningIsDeterministic ==
    \A i, j \in 1..Len(plans) : plans[i].result = plans[j].result

C20_Witness ==
    /\ cfg.duration_method = "jenks"
    /\ Len(plans) = 2
    /\ plans[1].listing # plans[2].listing
    /\ Len(plans[1].result.files) >= 20
    /\ Len(plans[1].result.duration_thresholds) = cfg.num_categories - 1
    /\ \E k \in 1..Len(plans[1].result.files) :
           plans[1].result.files[k].duration_cat
               # plans[1].result.files[1].duration_cat

-----------------------------------------------------------------------------
(* Properties of the progress sink.                                        *)

\* C21: a sink that raises during the analysis, a sort or a reset does not
\* abort the call: no call ends with the exception of the sink
C21_SinkFailureIsSwallowed ==
    \A k \in 1..Len(hist) :
        hist[k].result.status = "raised" => hist[k].result.exc # "on_progress"

-----------------------------------------------------------------------------
(* Properties of the labels.                                               *)

\* the whole numbers next to the values of t, where a label of t can stand
NumbersNear(t) == UNION {{RInt(t[i]), RInt(t[i]) + 1} : i \in 1..Len(t)}

Scaled(t) == [i \in 1..Len(t) |-> RMul(t[i], R(100))]

\* value lies where the label says: under n, at least n, or from n to m
WithinLabel(label, value, low, mid, high, unit, numbers) ==
    \A n \in numbers :
        /\ label = low \o ToString(n) \o unit => RLess(value, R(n))
        /\ label = high \o ToString(n) \o unit => RLeq(R(n), value)
        /\ \A m \in numbers :
               label = mid[1] \o ToString(n) \o mid[2] \o ToString(m) \o unit
                   => RLeq(R(n), value) /\ RLess(value, R(m))

\* C22: the numbers in the label of a file are the boundaries applied to
\* it: under short_under_Ns the duration is below N, under long_over_Ns at
\* least N, under medium_As-Bs from A to below B, and the same for the
\* percent values of the quality labels
C22_LabelsStateBoundaries ==
    \A i \in 1..Len(plans) :
        \A k \in 1..Len(plans[i].result.files) :
            /\ WithinLabel(plans[i].result.files[k].duration_cat,
                           plans[i].result.files[k].duration,
                           "short_under_", <<"medium_", "s-">>, "long_over_",
                           "s",
                           NumbersNear(plans[i].result.duration_thresholds))
            /\ WithinLabel(plans[i].result.files[k].quality_cat,
                           RMul(plans[i].result.files[k].quality_ratio, R(100)),
                           "low_under_", <<"medium_", "-">>, "high_over_",
                           "pct",
                           NumbersNear(Scaled(
                               plans[i].result.quality_thresholds)))

-----------------------------------------------------------------------------
(* Properties of the bitrate split.                                        *)

\* the files a finished live call has put at a new place
PlacedBy(h) ==
    {p \in DOMAIN h.after :
        /\ h.after[p].kind = "file"
        /\ (p \notin DOMAIN h.before \/ h.before[p] # h.after[p])}

\* C23: sort_by_bitrate and the third segment of sort_by_pipeline put a
\* file under the low folder exactly when its bitrate is below
\* bitrate_threshold * 1000, and under the normal folder otherwise, for
\* every bitrate from 0 on
C23_LowExactlyBelowThreshold ==
    \A k \in 1..Len(hist) :
        (/\ hist[k].op \in {"bitrate", "pipeline"}
         /\ ~hist[k].dry_run
         /\ hist[k].result.status = "returned") =>
            \A p \in PlacedBy(hist[k]) :
                /\ Meta[hist[k].after[p].id].bitrate
                       < cfg.bitrate_threshold * 1000
                   <=> Basename(Parent(p)).base
                          = "low_under_" \o ToString(cfg.bitrate_threshold)
                                \o "kbps"
                /\ Meta[hist[k].after[p].id].bitrate
                       >= cfg.bitrate_threshold * 1000
                   <=> Basename(Parent(p)).base
                          = "normal_over_" \o ToString(cfg.bitrate_threshold)
                                \o "kbps"

-----------------------------------------------------------------------------
(* Properties of the fixed quality classes.                                *)

\* the class (low, medium, high) that the two paths give the one file with
\* a positive ratio: categorize_video by name, preview_videos by the place
\* of the label among the three quality labels
DirectClass == categorized.direct.quality_cat

PreviewClass ==
    LET label == categorized.preview.files[1].quality_cat
        labels == categorized.preview.quality_labels
    IN  IF label = labels[3] THEN "high"
        ELSE IF label = labels[2] THEN "medium"
        ELSE IF label = labels[1] THEN "low" ELSE label

ClassOfRatio(ratio, c) ==
    IF RLeq(c.quality_high_min, ratio) THEN "high"
    ELSE IF RLeq(c.quality_medium_min, ratio) THEN "medium" ELSE "low"

PositiveRatio ==
    /\ categorized.label = "video"
    /\ RLess(R(0), categorized.preview.files[1].quality_ratio)

\* C24 as stated: under the fixed method with 3 categories a file with a
\* positive ratio is high exactly from quality_high_min on, medium from
\* quality_medium_min to below quality_high_min and low otherwise, on both
\* paths, for every pair of cutoffs
C24_FixedClassesAgree ==
    PositiveRatio =>
        /\ DirectClass
               = ClassOfRatio(categorized.preview.files[1].quality_ratio, cfg)
        /\ PreviewClass = DirectClass

\* C24: the same, for the pairs with quality_medium_min <= quality_high_min
C24_FixedClassesAgreeWhenOrdered ==
    (PositiveRatio /\ RLeq(cfg.quality_medium_min, cfg.quality_high_min)) =>
        /\ DirectClass
               = ClassOfRatio(categorized.preview.files[1].quality_ratio, cfg)
        /\ PreviewClass = DirectClass

C24_Witness ==
    /\ PositiveRatio
    /\ RLess(cfg.quality_medium_min, cfg.quality_high_min)
    /\ categorized.preview.files[1].quality_ratio = cfg.quality_high_min
    /\ DirectClass = "high"
    /\ PreviewClass = "high"

-----------------------------------------------------------------------------
(* Properties of the empty sample.                                         *)

\* the diagnostic of the empty sample
NoValues(info, method) ==
    /\ DOMAIN info = {"method", "error"}
    /\ info.method = method
    /\ info.error = "No values"

\* C25: on an empty sample calculate_dynamic_thresholds returns no
\* thresholds and a diagnostic, for every method and 2 and 3 categories; a
\* run of preview_videos on files whose durations (quality ratios) are all
\* zero ends with no thresholds and the diagnostic for that dimension, and
\* with a category for every file
C25_EmptySampleGivesDiagnostic ==
    /\ (computed.method # "none" /\ sample = <<>>) =>
           /\ computed.thresholds = <<>>
           /\ NoValues(computed.info, computed.method)
    /\ \A i \in 1..Len(plans) :
           LET plan == plans[i].result
           IN  /\ (/\ cfg.duration_method # "fixed"
                   /\ plan.files # <<>>
                   /\ \A k \in 1..Len(plan.files) :
                          plan.files[k].duration = R(0)) =>
                       /\ plan.duration_thresholds = <<>>
                       /\ NoValues(plan.duration_info, cfg.duration_method)
                       /\ \A k \in 1..Len(plan.files) :
                              plan.files[k].duration_cat
                                  \in Range(plan.duration_labels)
               /\ (/\ cfg.quality_method # "fixed"
                   /\ plan.files # <<>>
                   /\ \A k \in 1..Len(plan.files) :
                          plan.files[k].quality_ratio = R(0)) =>
                       /\ plan.quality_thresholds = <<>>
                       /\ NoValues(plan.quality_info, cfg.quality_method)
                       /\ \A k \in 1..Len(plan.files) :
                              plan.files[k].quality_cat = "unknown"

C25_Witness ==
    /\ cfg.duration_method = "jenks"
    /\ computed.method = "jenks"
    /\ sample = <<>>
    /\ \E i \in 1..Len(plans) :
           /\ plans[i].result.files # <<>>
           /\ plans[i].result.duration_thresholds = <<>>
           /\ plans[i].result.files[1].duration = R(0)
           /\ plans[i].result.files[1].quality_ratio = R(0)
           /\ plans[i].result.files[1].duration_cat = "medium"

-----------------------------------------------------------------------------
(* Properties of the collision search of reset_sorting.                    *)

-----------------------------------------------------------------------------
(* The thresholds of one run.                                              *)

\* what preview_videos says of the batch as it stood when the run began
BatchPlan == preview_videos(fs0, cfg)

\* the file of the batch plan's k-th record stands where that record sends it
PlacedByBatchPlan(k) ==
    LET vid == BatchPlan.files[k]
        dest == Join(DestDir(call.op, cfg, vid), vid.filename)
    IN  /\ Exists(fs, dest)
        /\ fs[dest] = fs0[vid.filepath]

\* C27: while sort_by_duration or sort_by_pipeline runs, the records it works
\* from are those of the plan of the batch as it stood at the start, one
\* threshold set for all; in a live run every file already handled stands in
\* the directory that plan names, whatever the files still at the root would
\* give if the thresholds were computed again
C27_ThresholdsComputedOnce ==
    (pc = "sort" /\ call.op \in {"duration", "pipeline"}) =>
        /\ files = BatchPlan.files
        /\ ~call.dry_run => \A k \in 1..(idx - 1) : PlacedByBatchPlan(k)

\* a live pipeline run has moved a file, and the files left at the root
\* would now put the next one into another duration category
C27_Witness ==
    /\ pc = "sort"
    /\ call.op = "pipeline"
    /\ ~call.dry_run
    /\ idx > 1
    /\ idx <= Len(files)
    /\ LET now == preview_videos(fs, cfg).files
       IN  \E k \in 1..Len(now) :
               /\ now[k].filepath = files[idx].filepath
               /\ now[k].duration_cat # files[idx].duration_cat

-----------------------------------------------------------------------------
(* The sample behind the duration thresholds.                              *)

LastPlan == plans[Len(plans)].result

\* the records of the last plan whose duration is above 0, in plan order
WithDuration ==
    SelectSeq(LastPlan.files, LAMBDA vid : RLess(R(0), vid.duration))

\* C28 as stated: the sample holds the duration of every file of the plan,
\* in plan order
C28_SampleHoldsEveryPlannedFile ==
    plans # <<>> =>
        sample = [k \in 1..Len(LastPlan.files) |-> LastPlan.files[k].duration]

\* C28, amended: the sample holds the duration of every file of the plan
\* whose duration is above 0, in plan order, and nothing else; under a
\* method other than fixed the thresholds of the plan are those of that
\* sample
C28_SampleHoldsPositiveDurations ==
    plans # <<>> =>
        /\ sample = [k \in 1..Len(WithDuration) |-> WithDuration[k].duration]
        /\ (cfg.duration_method # "fixed" /\ LastPlan.files # <<>>) =>
               LastPlan.duration_thresholds =
                   calculate_dynamic_thresholds(sample, cfg.duration_method,
                                                cfg.num_categories)

\* a plan with a file of duration 0 beside files that have a duration
C28_Witness ==
    /\ plans # <<>>
    /\ cfg.duration_method # "fixed"
    /\ sample # <<>>
    /\ Len(sample) < Len(LastPlan.files)
    /\ LastPlan.duration_thresholds # <<>>

-----------------------------------------------------------------------------
(* calculate_thresholds_kmeans.                                            *)

\* v is assigned to the i-th of the centroids c: none is nearer, and none of
\* those before it is as near
AssignedTo(v, c, i) ==
    /\ \A j \in 1..Len(c) : RLeq(RAbs(RSub(v, c[i])), RAbs(RSub(v, c[j])))
    /\ \A j \in 1..(i - 1) : RLess(RAbs(RSub(v, c[i])), RAbs(RSub(v, c[j])))

\* d follows c by one round of Lloyd's algorithm on the sample: a centroid
\* with values assigned to it moves to their mean, one without stays
LloydRound(c, d) ==
    /\ Len(d) = Len(c)
    /\ \A i \in 1..Len(c) :
           LET own == SelectSeq(sample, LAMBDA v : AssignedTo(v, c, i))
           IN  IF own = <<>> THEN d[i] = c[i]
               ELSE RMul(d[i], R(Len(own))) = Sum(own)

\* C29: calculate_thresholds_kmeans returns the empty list exactly for a
\* sample that is empty, shorter than num_categories or of equal values;
\* otherwise the loop makes at most 100 rounds, each a round of Lloyd's
\* algorithm in which a centroid without values keeps its value, it ends on
\* centroids that a further round leaves as they are unless it made all 100,
\* and the result is num_categories - 1 non-decreasing thresholds, the
\* midpoints of neighbouring centroids in ascending order
C29_KMeansThresholds ==
    computed.method = "kmeans" =>
        LET t == computed.thresholds
            trail == computed.centroids
            last == trail[Len(trail)]
            asc == Sorted(last)
        IN  /\ t = <<>> <=> \/ sample = <<>>
                            \/ Len(sample) < computed.num_categories
                            \/ AllEqual(sample)
            /\ t # <<>> =>
                   /\ Len(trail) <= max_iter + 1
                   /\ \A r \in 1..(Len(trail) - 1) :
                          LloydRound(trail[r], trail[r + 1])
                   /\ Len(trail) <= max_iter => LloydRound(last, last)
                   /\ Len(t) = computed.num_categories - 1
                   /\ NonDecreasing(t)
                   /\ \A i \in 1..Len(t) :
                          RMul(t[i], R(2)) = RAdd(asc[i], asc[i + 1])

\* three centroids of which one had no value in some round, and the loop
\* went on to other centroids
C29_Witness ==
    /\ computed.method = "kmeans"
    /\ computed.num_categories = 3
    /\ Len(computed.thresholds) = 2
    /\ Len(computed.centroids) >= 2
    /\ \E i \in 1..3 :
           \A k \in 1..Len(sample) :
               ~AssignedTo(sample[k], computed.centroids[1], i)

-----------------------------------------------------------------------------
(* reset_sorting run twice.                                                *)

\* the session began with a live reset that returned without a move error
CleanLiveReset ==
    /\ hist # <<>>
    /\ hist[1].op = "reset"
    /\ ~hist[1].dry_run
    /\ hist[1].result.status = "returned"
    /\ hist[1].result.errors = 0

\* C30: after a live reset that returned with errors = 0 no video file is
\* left below the root; a live reset that follows at once returns moved = 0
\* and errors = 0 and leaves the tree, and so every name at the root, as it
\* found it
C30_ResetIsIdempotent ==
    CleanLiveReset =>
        /\ Len(hist) = 1 => (pc = "idle" /\ WalkFiles(fs, cfg) = {})
        /\ Len(hist) = 2 =>
               /\ hist[2].op = "reset"
               /\ hist[2].result = ResetReturned(0, 0)
               /\ hist[2].after = hist[2].before
               /\ hist[2].before = hist[1].after

\* the first reset gave a file a numeric suffix, and the second reset ran
C30_Witness ==
    /\ CleanLiveReset
    /\ Len(hist) = 2
    /\ hist[1].result.moved >= 2
    /\ \E p \in DOMAIN hist[1].after :
           /\ Len(p) = 1
           /\ p \notin DOMAIN hist[1].before
           /\ p[1].base \in {"a_1", "a_2"}
    /\ hist[2].after = hist[1].after

====
